---- MODULE Spec2Model ----
(***************************************************************************)
(* Model of the COSPAS-SARSAT T.018 second-generation beacon transmitter:  *)
(* BCH(250,202) codec, PRN generator, frame builder and main program.      *)
(*                                                                         *)
(* Bit arrays (uint8_t x[n] in C, index 0..n-1) are sequences of length n; *)
(* C index k is TLA+ index k+1.  The operator At(s, k) reads C index k.    *)
(* 64-bit words are sequences of 64 bits, most significant bit first.      *)
(***************************************************************************)
EXTENDS Integers, Sequences, FiniteSets, TLC

\* ------------------------------------------------------------------------
\* Bounds of the model (not program constants)
\* ------------------------------------------------------------------------
MaxFlips == 1
MaxCalls == 5
MaxTx == 2

\* ------------------------------------------------------------------------
\* Generic helpers
\* ------------------------------------------------------------------------
Bit == {0, 1}

At(s, k) == s[k + 1]

Zeros(n) == [k \in 1..n |-> 0]

Pow2(n) == 2^n

\* bit k (0 = least significant) of a non-negative integer
BitOf(v, k) == (v \div Pow2(k)) % 2

\* a ^ b on 4-bit values, tabulated
NibbleXor ==
    [a \in 0..15 |-> [b \in 0..15 |->
        ((BitOf(a, 0) + BitOf(b, 0)) % 2)
        + 2 * ((BitOf(a, 1) + BitOf(b, 1)) % 2)
        + 4 * ((BitOf(a, 2) + BitOf(b, 2)) % 2)
        + 8 * ((BitOf(a, 3) + BitOf(b, 3)) % 2)]]

\* a ^ b on uint8_t values
ByteXor(a, b) ==
    16 * NibbleXor[a \div 16][b \div 16] + NibbleXor[a % 16][b % 16]

\* value of a bit sequence read most significant bit first (short sequences)
RECURSIVE BitsValue(_)
BitsValue(s) ==
    IF s = <<>> THEN 0 ELSE 2 * BitsValue(SubSeq(s, 1, Len(s) - 1)) + s[Len(s)]

\* the n bits of v, most significant first: what write_bits stores
ValueBits(v, n) == [k \in 1..n |-> BitOf(v, n - k)]

\* four bits of a hex digit, most significant first
NibbleBits(d) == ValueBits(d, 4)

RECURSIVE HexDigitsBits(_)
HexDigitsBits(h) ==
    IF h = <<>> THEN <<>> ELSE NibbleBits(Head(h)) \o HexDigitsBits(Tail(h))

\* ------------------------------------------------------------------------
\* t018_protocol.h constants
\* ------------------------------------------------------------------------
T018_INFO_BITS == 202
T018_FRAME_BITS == 252
BCH_INFO_BITS == 202
BCH_PARITY_BITS == 48

\* variant: the generator with its last hex digit mistyped
BCH_GENERATOR_POLY_Mistyped ==
    Zeros(12) \o HexDigitsBits(<<1, 12, 7, 14, 11, 8, 5, 13, 15, 3, 12, 9, 5>>)

\* 0x1C7EB85DF3C97 as a 64-bit word, most significant bit first
BCH_GENERATOR_POLY ==
    Zeros(12) \o HexDigitsBits(<<1, 12, 7, 14, 11, 8, 5, 13, 15, 3, 12, 9, 7>>)

\* static const uint8_t generator_poly[]
generator_poly ==
    <<1, 59, 13, 104, 189, 68, 209, 30, 8, 163, 65, 41, 229, 98, 50, 36, 59,
      23, 23, 37, 207, 165, 180, 29, 51, 168, 124, 247, 18, 175, 199, 34,
      60, 220, 121, 101, 246, 81, 63, 94, 180, 19, 58, 153, 187, 230, 84,
      189, 1>>

\* ------------------------------------------------------------------------
\* 64-bit word operations used by compute_bch_250_202
\* ------------------------------------------------------------------------
\* (w << 1) | b, for a bit b
ShiftLeftOr(w, b) == Append(Tail(w), b)

\* w & (1ULL << n) != 0
TestBit(w, n) == w[64 - n] = 1

WordXor(a, b) == [k \in 1..64 |-> (a[k] + b[k]) % 2]

\* the low n bits of w, most significant first
LowBits(w, n) == SubSeq(w, 64 - n + 1, 64)

\* variant: the division tests bit 47 of the shifted remainder
BchDivStep_Bit47(remainder, b) ==
    LET shifted == ShiftLeftOr(remainder, b)
    IN  IF TestBit(shifted, 47) THEN WordXor(shifted, BCH_GENERATOR_POLY)
        ELSE shifted

\* ------------------------------------------------------------------------
\* BCH encoding
\* ------------------------------------------------------------------------
\* one pass of the long-division loop of compute_bch_250_202
BchDivStep(remainder, b) ==
    LET shifted == ShiftLeftOr(remainder, b)
    IN  IF TestBit(shifted, 48) THEN WordXor(shifted, BCH_GENERATOR_POLY)
        ELSE shifted

\* the loop "for (i = lo; i <= hi; i++)" of compute_bch_250_202 over C
\* indices lo..hi, split in halves to keep the evaluation shallow
RECURSIVE BchDivide(_, _, _, _)
BchDivide(message, lo, hi, remainder) ==
    IF lo > hi THEN remainder
    ELSE IF lo = hi THEN BchDivStep(remainder, At(message, lo))
    ELSE LET mid == (lo + hi) \div 2
             first == BchDivide(message, lo, mid, remainder)
         IN  IF Len(first) = 64 THEN BchDivide(message, mid + 1, hi, first)
             ELSE first

\* static uint64_t compute_bch_250_202(const uint8_t *data_202bits);
\* the result is the 48 low bits, most significant first
compute_bch_250_202(data_202bits) ==
    LET message_255 == Zeros(5) \o SubSeq(data_202bits, 1, 202) \o Zeros(48)
    IN  LowBits(BchDivide(message_255, 0, 254, Zeros(64)), 48)

\* one pass of the outer loop of t018_calculate_bch on the byte array
\* remainder[0..47]
CalcBchStep(remainder, info_bit) ==
    LET feedback == ByteXor(At(remainder, BCH_PARITY_BITS - 1), info_bit)
        shifted == <<0>> \o SubSeq(remainder, 1, BCH_PARITY_BITS - 1)
    IN  IF feedback # 0
        THEN [j \in 1..BCH_PARITY_BITS |-> ByteXor(shifted[j], generator_poly[j])]
        ELSE shifted

\* the outer loop of t018_calculate_bch over C indices lo..hi
RECURSIVE CalcBchLoop(_, _, _, _)
CalcBchLoop(info_bits, lo, hi, remainder) ==
    IF lo > hi THEN remainder
    ELSE IF lo = hi THEN CalcBchStep(remainder, At(info_bits, lo))
    ELSE LET mid == (lo + hi) \div 2
             first == CalcBchLoop(info_bits, lo, mid, remainder)
         IN  IF Len(first) = BCH_PARITY_BITS
             THEN CalcBchLoop(info_bits, mid + 1, hi, first)
             ELSE first

\* void t018_calculate_bch(const uint8_t *info_bits, uint8_t *parity_bits)
t018_calculate_bch(info_bits) ==
    CalcBchLoop(info_bits, 0, BCH_INFO_BITS - 1, Zeros(BCH_PARITY_BITS))

\* uint8_t t018_verify_bch(const uint8_t *frame_bits)
t018_verify_bch(frame_bits) ==
    LET info_bits == SubSeq(frame_bits, 3, 204)
        received_bch == [i \in 1..48 |-> IF At(frame_bits, 204 + i - 1) # 0 THEN 1 ELSE 0]
        computed_bch == compute_bch_250_202(info_bits)
    IN  IF received_bch = computed_bch THEN 1 ELSE 0

\* ------------------------------------------------------------------------
\* PRN generator (prn_generator.h, prn_generator.c)
\* ------------------------------------------------------------------------
PRN_CHIPS_PER_BIT == 256
PRN_INIT_NORMAL_I == 1
PRN_INIT_NORMAL_Q == 1753596
PRN_INIT_TEST_I == 5425648
PRN_INIT_TEST_Q == 3991848

\* the chip put out for a register value: logic 1 -> -1, logic 0 -> +1
LfsrChip(lfsr) == IF lfsr % 2 = 1 THEN -1 ELSE 1

\* variant: the feedback taken from stages 0 and 17
LfsrStep_Tap17(lfsr) ==
    LET feedback == (BitOf(lfsr, 0) + BitOf(lfsr, 17)) % 2
    IN  ((lfsr \div 2) + feedback * Pow2(22)) % Pow2(23)

\* one pass of the loop body of prn_generate_i / prn_generate_q
LfsrStep(lfsr) ==
    LET feedback == (BitOf(lfsr, 0) + BitOf(lfsr, 18)) % 2
    IN  ((lfsr \div 2) + feedback * Pow2(22)) % Pow2(23)

\* <<chips, register>> after n passes of the loop from register lfsr,
\* split in halves to keep the evaluation shallow
RECURSIVE LfsrRun(_, _)
LfsrRun(lfsr, n) ==
    IF n = 0 THEN <<<<>>, lfsr>>
    ELSE IF n = 1 THEN <<<<LfsrChip(lfsr)>>, LfsrStep(lfsr)>>
    ELSE LET a == LfsrRun(lfsr, n \div 2)
             b == LfsrRun(a[2], n - (n \div 2))
         IN  <<a[1] \o b[1], b[2]>>

\* variant: the Normal Q register derived as the I register 64 steps on
prn_init_QFromI(mode) ==
    IF mode = 0
    THEN [lfsr_i |-> PRN_INIT_NORMAL_I,
          lfsr_q |-> LfsrRun(PRN_INIT_NORMAL_I, 64)[2], mode |-> mode]
    ELSE [lfsr_i |-> PRN_INIT_TEST_I, lfsr_q |-> PRN_INIT_TEST_Q, mode |-> mode]

\* void prn_init(prn_state_t *state, uint8_t mode)
prn_init(mode) ==
    IF mode = 0
    THEN [lfsr_i |-> PRN_INIT_NORMAL_I, lfsr_q |-> PRN_INIT_NORMAL_Q, mode |-> mode]
    ELSE [lfsr_i |-> PRN_INIT_TEST_I, lfsr_q |-> PRN_INIT_TEST_Q, mode |-> mode]

\* variant: the register is not stored back, every call restarts the run
prn_generate_i_Restart(state) ==
    <<state, LfsrRun(state.lfsr_i, PRN_CHIPS_PER_BIT)[1]>>

\* void prn_generate_i(prn_state_t *state, int8_t *sequence):
\* <<state after the call, sequence[0..255]>>
prn_generate_i(state) ==
    LET run == LfsrRun(state.lfsr_i, PRN_CHIPS_PER_BIT)
    IN  <<[state EXCEPT !.lfsr_i = run[2]], run[1]>>

\* void prn_generate_q(prn_state_t *state, int8_t *sequence)
prn_generate_q(state) ==
    LET run == LfsrRun(state.lfsr_q, PRN_CHIPS_PER_BIT)
    IN  <<[state EXCEPT !.lfsr_q = run[2]], run[1]>>

\* const int8_t reference[64] of prn_verify_table_2_2
Table22Reference ==
    <<-1, 1, 1, 1, 1, 1, 1, 1,   1, 1, 1, 1, 1, 1, 1, 1,
       1, 1, 1, 1, 1, 1, 1,-1,   1, 1, 1, 1,-1, 1, 1, 1,
       1,-1, 1, 1, 1, 1,-1, 1,   1, 1, 1,-1, 1, 1,-1, 1,
      -1, 1, 1, 1, 1,-1, 1, 1,  -1, 1,-1, 1, 1, 1, 1,-1>>

\* uint8_t prn_verify_table_2_2(void)
prn_verify_table_2_2 ==
    LET test_seq == LfsrRun(PRN_INIT_NORMAL_I, 64)[1]
    IN  IF \A i \in 1..64 : test_seq[i] = Table22Reference[i] THEN 1 ELSE 0

\* void chips_to_hex(const int8_t *chips, char *hex_str) of verify_prn.c:
\* the 64 chips as bits, chip -1 giving bit 1, most significant bit first
chips_to_hex(chips) == [k \in 1..64 |-> IF chips[k] = -1 THEN 1 ELSE 0]

\* variant: the parity written lowest degree first
WriteBchParity_LowFirst(bch_parity) == [i \in 1..48 |-> bch_parity[49 - i]]

\* ------------------------------------------------------------------------
\* Header and parity part of t018_build_frame: header bits, the 202
\* information bits, then the 48 parity bits of compute_bch_250_202
\* written from bit 47 down to bit 0
\* ------------------------------------------------------------------------
WriteBchParity(bch_parity) == [i \in 1..48 |-> bch_parity[i]]

AssembleFrame(test_mode, info_bits) ==
    <<IF test_mode # 0 THEN 1 ELSE 0, 0>>
        \o SubSeq(info_bits, 1, 202)
        \o WriteBchParity(compute_bch_250_202(info_bits))

\* ------------------------------------------------------------------------
\* Frame building (t018_protocol.c)
\* ------------------------------------------------------------------------
BEACON_TYPE_EPIRB == 0
BEACON_TYPE_PLB == 1
BEACON_TYPE_ELT == 2
BEACON_TYPE_ELT_DT == 3

RF_TYPE_G008 == 0
RF_TYPE_ELTDT == 1
RF_TYPE_RLS == 2
RF_TYPE_CANCEL == 3

\* a uint64_t holding a value below 2^31, as a 64-bit word
U64(v) == [k \in 1..64 |-> IF 64 - k >= 31 THEN 0 ELSE BitOf(v, 64 - k)]

\* 0x3FFFFFFFFFFULL
Ones42 == [k \in 1..64 |-> IF k <= 22 THEN 0 ELSE 1]

\* variant: every field written one position early
write_bits_OneEarly(bit_array, start_pos, num_bits, value) ==
    [k \in 1..Len(bit_array) |->
        IF k >= start_pos /\ k < start_pos + num_bits
        THEN value[64 - (num_bits - 1 - (k - start_pos))]
        ELSE bit_array[k]]

\* static void write_bits(uint8_t *bit_array, int start_pos, int num_bits,
\*                        uint64_t value): bit i of value goes to index
\* start_pos + num_bits - 1 - i
write_bits(bit_array, start_pos, num_bits, value) ==
    [k \in 1..Len(bit_array) |->
        IF k - 1 >= start_pos /\ k - 1 < start_pos + num_bits
        THEN value[64 - (num_bits - 1 - (k - 1 - start_pos))]
        ELSE bit_array[k]]

\* static uint8_t lfsr_8bit(uint8_t state)
lfsr_8bit(state) ==
    LET feedback == (BitOf(state, 0) + BitOf(state, 2) + BitOf(state, 3)
                     + BitOf(state, 4)) % 2
    IN  (state \div 2) + 128 * feedback

\* lfsr_state after n passes of the loop of the G008 test-mode field
RECURSIVE Lfsr8After(_, _)
Lfsr8After(state, n) == IF n = 0 THEN state ELSE lfsr_8bit(Lfsr8After(state, n - 1))

\* static uint8_t get_elapsed_activation_hours(void): the value returned;
\* times are below 2^31 and system_time >= activation_time
get_elapsed_activation_hours(sys_time, act_time) ==
    LET act == IF act_time = 0 THEN sys_time ELSE act_time
        elapsed_seconds == sys_time - act
        elapsed_hours == (elapsed_seconds \div 3600) % 256
    IN  IF elapsed_hours > 63 THEN 63 ELSE elapsed_hours

\* static uint16_t get_time_since_last_location_minutes(void)
get_time_since_last_location_minutes(sys_time, gps_time) ==
    LET elapsed_seconds == sys_time - gps_time
        elapsed_minutes == (elapsed_seconds \div 60) % 65536
    IN  IF elapsed_minutes > 2046 THEN 2046 ELSE elapsed_minutes

\* static uint16_t altitude_to_code(double altitude), for whole metres (a
\* gps_data_t holds 0..65535): (int16_t)((altitude + 400.0) / 16.0 + 0.0625 + 0.5)
\* is (altitude + 409) / 16 truncated, and & 0x3FF
altitude_to_code(altitude) ==
    IF altitude <= -400 THEN 0
    ELSE IF altitude > 15952 THEN 1022
    ELSE ((altitude + 400 + 9) \div 16) % 1024

\* static uint32_t encode_time_value(uint8_t day, uint8_t hour, uint8_t minute)
encode_time_value(day, hour, minute) ==
    (day % 32) * 2048 + (hour % 32) * 64 + (minute % 64)

\* a run of write_bits calls in program order; each field is
\* <<start_pos, num_bits, value>>
RECURSIVE WriteFields(_, _)
WriteFields(bit_array, fields) ==
    IF fields = <<>> THEN bit_array
    ELSE WriteFields(write_bits(bit_array, Head(fields)[1], Head(fields)[2],
                                Head(fields)[3]),
                     Tail(fields))

\* the loop of the G008 test-mode field: bit 185 + i is the low bit of the
\* lfsr state after i + 1 steps from transmission_count & 0xFF
G008TestBits(info_bits, tx_count) ==
    [k \in 1..Len(info_bits) |->
        IF k - 1 >= 185 /\ k - 1 < 185 + 17
        THEN Lfsr8After(tx_count % 256, k - 185) % 2
        ELSE info_bits[k]]

\* static void set_rotating_field(uint8_t *info_bits, rotating_field_type_t rf_type):
\* info_bits after the call.  cfg is the global beacon_config, tx_count
\* elt_state.transmission_count, clock the UTC time read by gmtime
set_rotating_field(info_bits, rf_type, cfg, tx_count, sys_time, act_time, gps_time, clock) ==
    CASE rf_type = RF_TYPE_G008 ->
            IF cfg.test_mode # 0
            THEN G008TestBits(
                    WriteFields(info_bits,
                        << <<154, 4, U64(rf_type)>>,
                           <<158, 6, U64(get_elapsed_activation_hours(sys_time, act_time))>>,
                           <<164, 11, U64(get_time_since_last_location_minutes(sys_time, gps_time))>>,
                           <<175, 10, U64(altitude_to_code(cfg.position.altitude))>> >>),
                    tx_count)
            ELSE WriteFields(info_bits,
                    << <<154, 4, U64(rf_type)>>,
                       <<158, 6, U64(get_elapsed_activation_hours(sys_time, act_time))>>,
                       <<164, 11, U64(get_time_since_last_location_minutes(sys_time, gps_time))>>,
                       <<175, 10, U64(altitude_to_code(cfg.position.altitude))>>,
                       <<185, 17, U64(0)>> >>)
      [] rf_type = RF_TYPE_ELTDT ->
            WriteFields(info_bits,
                << <<154, 4, U64(rf_type)>>,
                   <<158, 16, U64(encode_time_value(clock.mday, clock.hour, clock.min))>>,
                   <<174, 10, U64(altitude_to_code(cfg.position.altitude))>>,
                   <<184, 18, U64(0)>> >>)
      [] rf_type = RF_TYPE_RLS ->
            WriteFields(info_bits,
                << <<154, 4, U64(rf_type)>>, <<158, 8, U64(0)>>, <<166, 36, U64(0)>> >>)
      [] rf_type = RF_TYPE_CANCEL ->
            WriteFields(info_bits,
                << <<154, 4, U64(rf_type)>>, <<158, 2, U64(0)>>, <<160, 42, Ones42>> >>)
      [] OTHER -> WriteFields(info_bits, << <<154, 4, U64(rf_type)>> >>)

\* Positions: latitude and longitude are doubles on the grid of 1/DegUnit
\* degree, held as the integer number of grid steps
DegUnit == Pow2(18)

\* double -> float conversion of a grid value: 24 significant bits, round
\* to nearest, ties to even
ToFloat(v) ==
    LET a == IF v < 0 THEN -v ELSE v
        ulp == IF a < 64 * DegUnit THEN 1
               ELSE IF a < 128 * DegUnit THEN 2
               ELSE IF a < 256 * DegUnit THEN 4 ELSE 8
        lo == (a \div ulp) * ulp
        rounded == IF a - lo < ulp - (a - lo) THEN lo
                   ELSE IF a - lo > ulp - (a - lo) THEN lo + ulp
                   ELSE IF (lo \div ulp) % 2 = 0 THEN lo ELSE lo + ulp
    IN  IF v < 0 THEN -rounded ELSE rounded

\* (uint16_t)(decimal * 32768.0 + 0.5) for a float decimal in [0, 1)
DecimalEncoded(decimal) == (decimal + DegUnit \div 65536) \div (DegUnit \div 32768)

\* fabsf
FloatAbs(v) == IF v < 0 THEN -v ELSE v

\* (uint8_t)lat_abs, and lat_abs - lat_degrees
WholeDegrees(abs) == abs \div DegUnit
DecimalPart(abs) == abs - WholeDegrees(abs) * DegUnit

\* t018_encode_position once lat and lon are read: encoded[0..46], for
\* |lat|, |lon| < 256 degrees.  encoded[0] and encoded[23] are the signs.
EncodeLatLon(lat, lon) ==
    WriteFields(Zeros(47),
        << <<0, 1, U64(IF lat < 0 THEN 1 ELSE 0)>>,
           <<1, 7, U64(WholeDegrees(FloatAbs(lat)))>>,
           <<8, 15, U64(DecimalEncoded(DecimalPart(FloatAbs(lat))))>>,
           <<23, 1, U64(IF lon < 0 THEN 1 ELSE 0)>>,
           <<24, 8, U64(WholeDegrees(FloatAbs(lon)))>>,
           <<32, 15, U64(DecimalEncoded(DecimalPart(FloatAbs(lon))))>> >>)

\* void t018_encode_position(const gps_data_t *position, uint8_t *encoded)
t018_encode_position(position) ==
    EncodeLatLon(IF position.valid # 0 THEN ToFloat(position.latitude) ELSE 0,
                 IF position.valid # 0 THEN ToFloat(position.longitude) ELSE 0)

\* memcpy(&dst[pos], src, n)
CopyBits(dst, pos, src, n) ==
    [k \in 1..Len(dst) |->
        IF k - 1 >= pos /\ k - 1 < pos + n THEN src[k - pos] ELSE dst[k]]

\* the rotating field kind chosen by t018_build_frame
RotatingFieldType(cfg) ==
    IF cfg.type = BEACON_TYPE_ELT_DT THEN RF_TYPE_ELTDT ELSE RF_TYPE_G008

\* variant: the TAC taken from the configuration in both modes
FrameTac_NoOverride(cfg) == cfg.tac_number % 65536

\* uint16_t tac of t018_build_frame
FrameTac(cfg) == IF cfg.test_mode # 0 THEN 9999 ELSE cfg.tac_number % 65536

\* uint8_t vessel_id_type and uint32_t vessel_id of t018_build_frame
VesselIdType(cfg) ==
    CASE cfg.type = BEACON_TYPE_EPIRB -> 1
      [] cfg.type = BEACON_TYPE_ELT -> 2
      [] cfg.type = BEACON_TYPE_ELT_DT -> 2
      [] OTHER -> 0

VesselId(cfg) == IF cfg.type = BEACON_TYPE_EPIRB THEN 227006600 ELSE 0

\* t018_build_frame up to the position: TAC, serial number, country code,
\* the three status bits, then the two memcpy of the encoded position
InfoThroughPosition(cfg, gps_encoded) ==
    CopyBits(
        CopyBits(
            WriteFields(Zeros(T018_INFO_BITS),
                << <<0, 16, U64(FrameTac(cfg))>>,
                   <<16, 14, U64(cfg.serial_number % 16384)>>,
                   <<30, 10, U64(cfg.country_code % 1024)>>,
                   <<40, 1, U64(0)>>,
                   <<41, 1, U64(1)>>,
                   <<42, 1, U64(IF cfg.test_mode # 0 THEN 1 ELSE 0)>> >>),
            43, gps_encoded, 23),
        66, SubSeq(gps_encoded, 24, 47), 24)

\* the 202-bit information field built by t018_build_frame, before the
\* rotating field is set
InfoFixedPart(cfg) ==
    WriteFields(InfoThroughPosition(cfg, t018_encode_position(cfg.position)),
        << <<90, 3, U64(VesselIdType(cfg))>>,
           <<93, 30, U64(VesselId(cfg) % 1073741824)>>,
           <<123, 14, U64(0)>>,
           <<137, 3, U64(cfg.type)>>,
           <<140, 14, U64(16383)>> >>)

\* void t018_build_frame(const beacon_config_t *config, uint8_t *frame_bits):
\* frame_bits[0..251]
t018_build_frame(cfg, tx_count, sys_time, act_time, gps_time, clock) ==
    LET info_bits == set_rotating_field(InfoFixedPart(cfg), RotatingFieldType(cfg),
                                        cfg, tx_count, sys_time, act_time,
                                        gps_time, clock)
    IN  AssembleFrame(cfg.test_mode, info_bits)

\* ------------------------------------------------------------------------
\* Polynomials over GF(2): a polynomial is a function from degrees to
\* coefficients.  Reference arithmetic the encoder is compared with.
\* ------------------------------------------------------------------------
\* coefficient of x^j in G(x)
GCoeff(j) == BCH_GENERATOR_POLY[64 - j]

\* M(x) * x^48 for the information block: info[0] is the coefficient of
\* x^201 of M
MessagePoly(info) ==
    [d \in 0..249 |-> IF d >= 48 THEN At(info, 201 - (d - 48)) ELSE 0]

\* schoolbook division step at degree d: cancel the leading term of p with
\* G(x) * x^(d-48)
PolyCancel(p, d) ==
    IF p[d] = 0 THEN p
    ELSE [e \in 0..249 |->
            IF e >= d - 48 /\ e <= d THEN (p[e] + GCoeff(e - (d - 48))) % 2
            ELSE p[e]]

\* cancel the terms of degree hi down to lo, recording the quotient
RECURSIVE PolyDivide(_, _, _)
PolyDivide(pq, hi, lo) ==
    IF hi < lo THEN pq
    ELSE IF hi = lo
         THEN [p |-> PolyCancel(pq.p, hi),
               q |-> [pq.q EXCEPT ![hi - 48] = pq.p[hi]]]
    ELSE LET mid == (lo + hi + 1) \div 2
             first == PolyDivide(pq, hi, mid)
         IN  IF first.p[0] \in Bit THEN PolyDivide(first, mid - 1, lo) ELSE first

\* quotient q and remainder p (degree < 48) of M(x) * x^48 by G(x)
PolyDivMod(info) ==
    PolyDivide([p |-> MessagePoly(info), q |-> [d \in 0..201 |-> 0]], 249, 48)

\* q(x) * G(x) + r(x), degrees 0..249
PolyMulAdd(q, r) ==
    [d \in 0..249 |->
        (Cardinality({j \in 0..48 : /\ GCoeff(j) = 1
                                    /\ d - j \in 0..201
                                    /\ q[d - j] = 1})
         + (IF d < 48 THEN r[d] ELSE 0)) % 2]

\* ------------------------------------------------------------------------
\* Inputs of the codec
\* ------------------------------------------------------------------------
\* T.018 Appendix B.1 test vector, 51 hex digits
AppendixB1Hex ==
    <<0,0,14,6,0,8,15,4,12,9,8,6,1,9,6,1,8,8,10,0,4,7,12,0,0,
      0,0,0,0,0,0,0,0,0,0,15,15,15,12,0,1,0,0,12,1,10,0,0,9,6,0>>

\* int hex_to_bits(const char *hex_string, uint8_t *bits, int num_bits):
\* the first num_bits bits of the digits, each digit most significant first
hex_to_bits(hex, num_bits) == SubSeq(HexDigitsBits(hex), 1, num_bits)

AppendixB1Info == hex_to_bits(AppendixB1Hex, 202)

AppendixB1Parity == HexDigitsBits(<<4, 9, 2, 10, 4, 15, 12, 5, 7, 10, 4, 9>>)

UnitInfo(i) == [k \in 1..202 |-> IF k = i + 1 THEN 1 ELSE 0]

BchInputs == {Zeros(202), AppendixB1Info} \cup {UnitInfo(i) : i \in 0..201}

BchFlipPositions == {0, 201}

\* ------------------------------------------------------------------------
\* State
\* ------------------------------------------------------------------------
VARIABLES
    info_bits,      \* codec: the 202-bit information block handed to the codec
    flips,          \* codec: number of bits of the drawn input changed so far
    encoder,        \* codec: "none", "public" (t018_calculate_bch) or
                    \*        "internal" (compute_bch_250_202)
    parity_bits,    \* codec: uint8_t parity_bits[48] written by t018_calculate_bch
    codeword,       \* codec: 252-entry frame holding info_bits and the parity
    bch_valid       \* codec: result of t018_verify_bch(codeword), -1 before the call

bchVars == <<info_bits, flips, encoder, parity_bits, codeword, bch_valid>>

VARIABLES
    prn_state,      \* PRN: prn_state_t, [lfsr_i, lfsr_q, mode]
    i_out,          \* PRN: chips written by the prn_generate_i calls since prn_init
    q_out,          \* PRN: chips written by the prn_generate_q calls since prn_init
    i_calls,        \* PRN: number of prn_generate_i calls since prn_init
    q_calls,        \* PRN: number of prn_generate_q calls since prn_init
    prn_valid       \* result of prn_verify_table_2_2(), -1 before the call

prnVars == <<prn_state, i_out, q_out, i_calls, q_calls, prn_valid>>

VARIABLES
    mod_pc,         \* modulator: position in oqpsk_modulate_frame
    mod_build,      \* modulator: which oqpsk_modulator.c of the repository is built
    mod_sps,        \* modulator: OQPSK_SAMPLES_PER_CHIP of the build
    mod_caller,     \* modulator: the function that calls oqpsk_modulate_frame
    tx_frame,       \* modulator: uint8_t tx_frame[300], <<>> before it is built
    i_bits,         \* modulator: uint8_t i_bits[150]
    q_bits,         \* modulator: uint8_t q_bits[150]
    i_prn,          \* modulator: the buffer i_prn once spread, <<>> before
    q_prn,          \* modulator: the buffer q_prn once spread, <<>> before
    iq_written,     \* modulator: lowest and highest index of iq_samples written
    num_samples     \* modulator: value returned, -1 before the return

modVars == <<mod_pc, mod_build, mod_sps, mod_caller, tx_frame, i_bits, q_bits,
             i_prn, q_prn, iq_written, num_samples>>

VARIABLES
    config,                 \* the beacon_config_t the caller passes to t018_build_frame
    beacon_config,          \* static beacon_config_t beacon_config
    elt_state,              \* static elt_state_t elt_state
    system_time,            \* static uint32_t system_time
    activation_time,        \* static uint32_t activation_time
    last_gps_update_time,   \* static uint32_t last_gps_update_time
    frame_bits,             \* uint8_t frame_bits[252] of the caller, <<>> before the first build
    frame_valid,            \* result of t018_verify_bch in t018_print_frame, -1 before
    increments              \* t018_increment_transmission_count calls of this run

frameVars == <<config, beacon_config, elt_state, system_time, activation_time,
               last_gps_update_time, frame_bits, frame_valid, increments>>

VARIABLES
    main_pc,        \* position of main() of pluto_control.c, "off" when it does not run
    running,        \* static volatile uint8_t running
    app_config,     \* app_config_t config of main, filled by parse_args
    prn_ok,         \* what prn_verify_table_2_2 returned to main, -1 before the call
    pluto_state,    \* what main has done with pluto_ctx
    tx_count,       \* uint32_t tx_count of main
    wait_i,         \* the counter i of the wait loop
    exit_code,      \* return value of main, -1 while it runs
    built,          \* frames built by transmit_beacon in this run
    modulated,      \* frames modulated in this run
    sent,           \* bursts pluto_transmit_iq accepted in this run
    saved,          \* files pluto_save_iq_file wrote in this run
    burst,          \* transmit_beacon: num_samples returned by the modulator,
                    \*   what the samples are like, and what
                    \*   oqpsk_verify_output returned for them
    cleanups        \* pluto_cleanup calls in this run

mainVars == <<main_pc, running, app_config, prn_ok, pluto_state, tx_count, wait_i,
              exit_code, built, modulated, sent, saved, burst, cleanups>>

VARIABLES
    elt_tx,         \* ELT sequence: t018_increment_transmission_count calls since
                    \*   elt_state was initialised, statically or by
                    \*   t018_start_elt_sequence
    elt_starts,     \* ELT sequence: t018_start_elt_sequence calls
    elt_interval    \* ELT sequence: what t018_get_current_interval returned
                    \*   since elt_state last changed, -1 if not called

eltVars == <<elt_tx, elt_starts, elt_interval>>

VARIABLES
    pl_build,       \* PlutoSDR calls: which pluto_transmit_iq is compiled in
    pl_ctx,         \* PlutoSDR calls: the pluto_ctx_t (pointers as 0 or 1)
    dev_alive,      \* PlutoSDR calls: the IIO context that owns ctx->tx_dev
                    \*   exists (created and not destroyed)
    pl_call,        \* PlutoSDR calls: the last call, what it returned and
                    \*   what it did with IIO buffers
    pl_calls        \* PlutoSDR calls: calls made so far

plutoVars == <<pl_build, pl_ctx, dev_alive, pl_call, pl_calls>>

vars == <<bchVars, prnVars, modVars, frameVars, mainVars, eltVars, plutoVars>>

\* what the actions of each specification leave alone
bchOthers == <<prnVars, modVars, frameVars, mainVars, eltVars, plutoVars>>
prnOthers == <<bchVars, modVars, frameVars, mainVars, eltVars, plutoVars>>
modOthers == <<bchVars, frameVars, mainVars, eltVars, plutoVars>>
frameOthers == <<bchVars, prnVars, modVars, mainVars, eltVars, plutoVars>>
mainOthers == <<bchVars, prnVars, modVars, eltVars, plutoVars>>
eltOthers == <<bchVars, prnVars, modVars, mainVars, plutoVars>>
plutoOthers == <<bchVars, prnVars, modVars, frameVars, mainVars, eltVars>>

\* ------------------------------------------------------------------------
\* BCH codec specification: the input is drawn, then encoded by one of the
\* two encoders, then the codeword is verified
\* ------------------------------------------------------------------------
BchIdle ==
    /\ info_bits = <<>>
    /\ flips = 0
    /\ encoder = "none"
    /\ parity_bits = <<>>
    /\ codeword = <<>>
    /\ bch_valid = -1

PrnIdle ==
    /\ prn_state = [lfsr_i |-> 0, lfsr_q |-> 0, mode |-> 0]
    /\ i_out = <<>>
    /\ q_out = <<>>
    /\ i_calls = 0
    /\ q_calls = 0
    /\ prn_valid = -1

\* an index range of iq_samples; lo > hi when nothing is written
NoSamples == [lo |-> 0, hi |-> -1]

ModIdle ==
    /\ mod_pc = "idle"
    /\ mod_build = "part_003"
    /\ mod_sps = 16
    /\ mod_caller = "none"
    /\ tx_frame = <<>>
    /\ i_bits = <<>>
    /\ q_bits = <<>>
    /\ i_prn = <<>>
    /\ q_prn = <<>>
    /\ iq_written = NoSamples
    /\ num_samples = -1

\* the static initialisers of t018_protocol.c; positions on the DegUnit grid
DefaultBeaconConfig ==
    [type |-> BEACON_TYPE_EPIRB, country_code |-> 227, tac_number |-> 10001,
     serial_number |-> 13398, test_mode |-> 1,
     position |-> [latitude |-> 11324621, longitude |-> 1415578,
                   altitude |-> 0, valid |-> 1]]

ELT_PHASE_1 == 0
ELT_PHASE_2 == 1
ELT_PHASE_3 == 2
ELT_PHASE1_COUNT == 36
ELT_PHASE2_COUNT == 162

DefaultEltState ==
    [current_phase |-> ELT_PHASE_1, transmission_count |-> 0, active |-> 0]

FrameIdle ==
    /\ config = DefaultBeaconConfig
    /\ beacon_config = DefaultBeaconConfig
    /\ elt_state = DefaultEltState
    /\ system_time = 0
    /\ activation_time = 0
    /\ last_gps_update_time = 0
    /\ frame_bits = <<>>
    /\ frame_valid = -1
    /\ increments = 0

\* static app_config_t default_config, with the positions on the DegUnit grid
default_config ==
    [beacon_type |-> BEACON_TYPE_EPIRB, country_code |-> 227, tac_number |-> 10001,
     serial_number |-> 13398, test_mode |-> 1,
     latitude |-> 11324621, longitude |-> 1415578, altitude |-> 0,
     tx_interval_sec |-> 10, file_mode |-> 0]

EltIdle ==
    /\ elt_tx = 0
    /\ elt_starts = 0
    /\ elt_interval = -1

\* static pluto_ctx_t pluto_ctx: zero before pluto_init, as after its memset
PlutoZero ==
    [ctx |-> 0, tx_dev |-> 0, tx_i |-> 0, tx_q |-> 0, tx_buf |-> 0,
     initialized |-> 0]

\* no PlutoSDR call made yet
NoCall ==
    [fn |-> "none", ret |-> 0, num_samples |-> 0, created |-> 0,
     destroyed |-> 0, pushed |-> <<>>, dead_use |-> FALSE]

PlutoIdle ==
    /\ pl_build = "part_004"
    /\ pl_ctx = PlutoZero
    /\ dev_alive = FALSE
    /\ pl_call = NoCall
    /\ pl_calls = 0

\* transmit_beacon before oqpsk_modulate_frame is called
NoBurst == [num_samples |-> -1, stats |-> <<>>, verified |-> -1]

MainIdle ==
    /\ main_pc = "off"
    /\ burst = NoBurst
    /\ cleanups = 0
    /\ running = 1
    /\ app_config = default_config
    /\ prn_ok = -1
    /\ pluto_state = "none"
    /\ tx_count = 0
    /\ wait_i = 0
    /\ exit_code = -1
    /\ built = 0
    /\ modulated = 0
    /\ sent = 0
    /\ saved = 0

InitBch ==
    /\ PlutoIdle
    /\ EltIdle
    /\ PrnIdle
    /\ ModIdle
    /\ FrameIdle
    /\ MainIdle
    /\ info_bits \in BchInputs
    /\ flips = 0
    /\ encoder = "none"
    /\ parity_bits = <<>>
    /\ codeword = <<>>
    /\ bch_valid = -1

\* the caller changes one bit of the information block before encoding
BchFlipInput ==
    /\ encoder = "none"
    /\ flips < MaxFlips
    /\ \E i \in BchFlipPositions :
          info_bits' = [info_bits EXCEPT ![i + 1] = 1 - @]
    /\ flips' = flips + 1
    /\ UNCHANGED <<encoder, parity_bits, codeword, bch_valid>>
    /\ UNCHANGED bchOthers

\* t018_calculate_bch(info_bits, parity_bits); the caller lays out a frame
\* of header, information bits and these parity entries
CalculateBch ==
    /\ encoder = "none"
    /\ encoder' = "public"
    /\ parity_bits' = t018_calculate_bch(info_bits)
    /\ codeword' = <<0, 0>> \o info_bits \o parity_bits'
    /\ UNCHANGED <<info_bits, flips, bch_valid>>
    /\ UNCHANGED bchOthers

\* the frame tail of t018_build_frame on this information block
BuildCodeword ==
    /\ encoder = "none"
    /\ encoder' = "internal"
    /\ codeword' = AssembleFrame(0, info_bits)
    /\ UNCHANGED <<info_bits, flips, parity_bits, bch_valid>>
    /\ UNCHANGED bchOthers

\* bch_valid = t018_verify_bch(codeword)
VerifyBch ==
    /\ encoder # "none"
    /\ bch_valid = -1
    /\ bch_valid' = t018_verify_bch(codeword)
    /\ UNCHANGED <<info_bits, flips, encoder, parity_bits, codeword>>
    /\ UNCHANGED bchOthers

NextBch == BchFlipInput \/ CalculateBch \/ BuildCodeword \/ VerifyBch

SpecBch == InitBch /\ [][NextBch]_vars

\* ------------------------------------------------------------------------
\* Properties of the BCH codec
\* ------------------------------------------------------------------------
\* C2: verify(info, compute(info)) = true for the public codec: the 48
\* entries written by t018_calculate_bch are each 0 or 1, and the frame made
\* of the information block and that parity passes t018_verify_bch.
C2_PublicCodecRoundTrip ==
    /\ encoder = "public" => \A j \in 1..48 : parity_bits[j] \in Bit
    /\ (encoder = "public" /\ bch_valid # -1) => bch_valid = 1

\* C3: the parity of compute_bch_250_202 is the remainder of M(x) x^48 by
\* G(x), info[0] being the coefficient of x^201, and the frame carries the
\* 48 remainder coefficients highest degree first in bits 204..251.  The
\* reference division is certified by q(x) G(x) + r(x) = M(x) x^48.
C3_ParityIsPolynomialRemainder ==
    (encoder = "internal" /\ bch_valid # -1) =>
        LET dm == PolyDivMod(info_bits)
        IN  /\ PolyMulAdd(dm.q, dm.p) = MessagePoly(info_bits)
            /\ \A i \in 0..47 : At(codeword, 204 + i) = dm.p[47 - i]

C3_Witness ==
    /\ encoder = "internal"
    /\ bch_valid = 1
    /\ flips = 1
    /\ \E i \in 0..47 : At(codeword, 204 + i) = 1

\* C4: the encoder applied to the Appendix B.1 information bits yields the
\* parity 0x492A4FC57A49.
C4_AppendixB1Vector ==
    (encoder = "internal" /\ info_bits = AppendixB1Info) =>
        SubSeq(codeword, 205, 252) = AppendixB1Parity

C4_Witness ==
    /\ encoder = "internal"
    /\ info_bits = AppendixB1Info
    /\ bch_valid = 1

\* ------------------------------------------------------------------------
\* PRN generator specification: a prn_state_t is initialised in either mode
\* and the two generators are called in any order
\* ------------------------------------------------------------------------
InitPrn ==
    /\ PlutoIdle
    /\ EltIdle
    /\ BchIdle
    /\ ModIdle
    /\ FrameIdle
    /\ MainIdle
    /\ \E mode \in {0, 1} : prn_state = prn_init(mode)
    /\ i_out = <<>>
    /\ q_out = <<>>
    /\ i_calls = 0
    /\ q_calls = 0
    /\ prn_valid = -1

\* prn_init(&state, mode) on the same structure: both runs start again
PrnInit ==
    /\ i_calls + q_calls > 0
    /\ \E mode \in {0, 1} : prn_state' = prn_init(mode)
    /\ i_out' = <<>>
    /\ q_out' = <<>>
    /\ i_calls' = 0
    /\ q_calls' = 0
    /\ UNCHANGED prn_valid
    /\ UNCHANGED prnOthers

\* prn_generate_i(&state, sequence); the caller appends the sequence
PrnGenerateI ==
    /\ i_calls < MaxCalls
    /\ LET r == prn_generate_i(prn_state)
       IN  /\ prn_state' = r[1]
           /\ i_out' = i_out \o r[2]
    /\ i_calls' = i_calls + 1
    /\ UNCHANGED <<q_out, q_calls, prn_valid>>
    /\ UNCHANGED prnOthers

\* prn_generate_q(&state, sequence); the caller appends the sequence
PrnGenerateQ ==
    /\ q_calls < MaxCalls
    /\ LET r == prn_generate_q(prn_state)
       IN  /\ prn_state' = r[1]
           /\ q_out' = q_out \o r[2]
    /\ q_calls' = q_calls + 1
    /\ UNCHANGED <<i_out, i_calls, prn_valid>>
    /\ UNCHANGED prnOthers

\* prn_valid = prn_verify_table_2_2()
PrnVerify ==
    /\ prn_valid = -1
    /\ prn_valid' = prn_verify_table_2_2
    /\ UNCHANGED <<prn_state, i_out, q_out, i_calls, q_calls>>
    /\ UNCHANGED prnOthers

NextPrn == PrnInit \/ PrnGenerateI \/ PrnGenerateQ \/ PrnVerify

SpecPrn == InitPrn /\ [][NextPrn]_vars

\* ------------------------------------------------------------------------
\* Properties of the PRN generator
\* ------------------------------------------------------------------------
Table22NormalI == HexDigitsBits(<<8,0,0,0, 0,1,0,8, 4,2,1,2, 8,4,10,1>>)
Table22NormalQ == HexDigitsBits(<<3,15,8,3, 5,8,11,10, 13,0,3,0, 15,2,3,1>>)
Table22SelfTestI == HexDigitsBits(<<0,15,9,3, 4,10,4,13, 4,12,15,3, 0,2,8,13>>)
Table22SelfTestQ == HexDigitsBits(<<1,4,9,7, 3,13,12,7, 1,6,12,13, 14,1,2,4>>)

InitialRegisters == prn_init(prn_state.mode)

\* C8: the concatenated output of k successive prn_generate_i calls is the
\* first 256 k chips of one uninterrupted LFSR run from the initial lfsr_i,
\* likewise for prn_generate_q, and each generator leaves the other
\* channel's register unchanged in any interleaving of the calls.
C8_Continuous ==
    /\ i_out = LfsrRun(InitialRegisters.lfsr_i, PRN_CHIPS_PER_BIT * i_calls)[1]
    /\ q_out = LfsrRun(InitialRegisters.lfsr_q, PRN_CHIPS_PER_BIT * q_calls)[1]
    /\ Len(i_out) = PRN_CHIPS_PER_BIT * i_calls
    /\ Len(q_out) = PRN_CHIPS_PER_BIT * q_calls

C8_Independent ==
    /\ (i_calls' = i_calls + 1) => prn_state'.lfsr_q = prn_state.lfsr_q
    /\ (q_calls' = q_calls + 1) => prn_state'.lfsr_i = prn_state.lfsr_i

C8_ContinuousRunPerChannel == [](C8_Continuous) /\ [][C8_Independent]_vars

C8_Witness ==
    /\ i_calls >= 2
    /\ q_calls >= 2
    /\ prn_state.lfsr_i # InitialRegisters.lfsr_i
    /\ prn_state.lfsr_q # InitialRegisters.lfsr_q

\* ------------------------------------------------------------------------
\* The chips of one frame: oqpsk_modulate_frame makes 150 prn_generate_i
\* calls, then prn_init again, then 150 prn_generate_q calls
\* ------------------------------------------------------------------------
OQPSK_BITS_PER_CHANNEL == 150

FrameChips == OQPSK_BITS_PER_CHANNEL * PRN_CHIPS_PER_BIT

t018_check_phase_transition_Late(st) ==
    CASE st.current_phase = ELT_PHASE_1 /\ st.transmission_count > ELT_PHASE1_COUNT ->
            [st EXCEPT !.current_phase = ELT_PHASE_2, !.transmission_count = 0]
      [] st.current_phase = ELT_PHASE_2 /\ st.transmission_count > ELT_PHASE2_COUNT ->
            [st EXCEPT !.current_phase = ELT_PHASE_3, !.transmission_count = 0]
      [] OTHER -> st

\* void t018_check_phase_transition(void) after the count was incremented
t018_check_phase_transition(st) ==
    CASE st.current_phase = ELT_PHASE_1 /\ st.transmission_count >= ELT_PHASE1_COUNT ->
            [st EXCEPT !.current_phase = ELT_PHASE_2, !.transmission_count = 0]
      [] st.current_phase = ELT_PHASE_2 /\ st.transmission_count >= ELT_PHASE2_COUNT ->
            [st EXCEPT !.current_phase = ELT_PHASE_3, !.transmission_count = 0]
      [] OTHER -> st

\* void t018_increment_transmission_count(void); the count is a uint16_t
t018_increment_transmission_count(st) ==
    t018_check_phase_transition(
        [st EXCEPT !.transmission_count = (@ + 1) % 65536])

\* inputs
FrameTypes == {BEACON_TYPE_EPIRB, BEACON_TYPE_PLB, BEACON_TYPE_ELT, BEACON_TYPE_ELT_DT}

FrameIdentities ==
    {[country_code |-> 227, tac_number |-> 10001, serial_number |-> 13398],
     [country_code |-> 1023, tac_number |-> 65535, serial_number |-> 16383]}

FramePositions ==
    {[latitude |-> 11324621, longitude |-> 1415578, altitude |-> 0],
     [latitude |-> -(89 * DegUnit + DegUnit - 4),
      longitude |-> -(179 * DegUnit + DegUnit - 4), altitude |-> 1500]}

FrameConfigs ==
    {[type |-> t, country_code |-> id.country_code, tac_number |-> id.tac_number,
      serial_number |-> id.serial_number, test_mode |-> m,
      position |-> [latitude |-> p.latitude, longitude |-> p.longitude,
                    altitude |-> p.altitude, valid |-> v]] :
        t \in FrameTypes, id \in FrameIdentities, m \in {0, 1},
        p \in FramePositions, v \in {0, 1}}

\* elt_state values reached after 0, 1 and 36 + 162 + 255 transmissions
FrameEltStates ==
    {[current_phase |-> ELT_PHASE_1, transmission_count |-> 0, active |-> 0],
     [current_phase |-> ELT_PHASE_1, transmission_count |-> 1, active |-> 0],
     [current_phase |-> ELT_PHASE_3, transmission_count |-> 255, active |-> 0]}

\* time(NULL) at t018_init, and the UTC day, hour and minute at a build
FrameTimes == {1762419600}

FrameClocks == {[mday |-> 3, hour |-> 14, min |-> 7], [mday |-> 31, hour |-> 23, min |-> 59]}

InitFrame ==
    /\ PlutoIdle
    /\ EltIdle
    /\ BchIdle
    /\ PrnIdle
    /\ ModIdle
    /\ MainIdle
    /\ config \in FrameConfigs
    /\ beacon_config = DefaultBeaconConfig
    /\ elt_state \in FrameEltStates
    /\ system_time = 0
    /\ activation_time = 0
    /\ last_gps_update_time = 0
    /\ frame_bits = <<>>
    /\ frame_valid = -1
    /\ increments = 0

\* t018_init()
FrameT018Init ==
    /\ system_time = 0
    /\ frame_bits = <<>>
    /\ \E now \in FrameTimes :
          /\ system_time' = now
          /\ activation_time' = now - 3 * 3600
          /\ last_gps_update_time' = now - 5 * 60
    /\ UNCHANGED <<config, beacon_config, elt_state, frame_bits, frame_valid, increments>>
    /\ UNCHANGED frameOthers

\* t018_build_frame(&config, frame_bits), for the first frame or once the
\* previous one was printed
FrameBuild ==
    /\ frame_bits = <<>> \/ frame_valid # -1
    /\ \E clock \in (IF config.type = BEACON_TYPE_ELT_DT THEN FrameClocks
                     ELSE {[mday |-> 1, hour |-> 0, min |-> 0]}) :
          frame_bits' = t018_build_frame(config, elt_state.transmission_count,
                                         system_time, activation_time,
                                         last_gps_update_time, clock)
    /\ beacon_config' = config
    /\ activation_time' =
          IF RotatingFieldType(config) = RF_TYPE_G008 /\ activation_time = 0
          THEN system_time ELSE activation_time
    /\ frame_valid' = -1
    /\ UNCHANGED <<config, elt_state, system_time, last_gps_update_time, increments>>
    /\ UNCHANGED frameOthers

\* t018_print_frame(frame_bits), which verifies the BCH parity
FramePrint ==
    /\ frame_bits # <<>>
    /\ frame_valid = -1
    /\ frame_valid' = t018_verify_bch(frame_bits)
    /\ UNCHANGED <<config, beacon_config, elt_state, system_time, activation_time,
                   last_gps_update_time, frame_bits, increments>>
    /\ UNCHANGED frameOthers

\* t018_increment_transmission_count() after a burst
FrameIncrement ==
    /\ frame_bits # <<>>
    /\ increments < MaxTx
    /\ elt_state' = t018_increment_transmission_count(elt_state)
    /\ increments' = increments + 1
    /\ UNCHANGED <<config, beacon_config, system_time, activation_time,
                   last_gps_update_time, frame_bits, frame_valid>>
    /\ UNCHANGED frameOthers

NextFrame == FrameT018Init \/ FrameBuild \/ FramePrint \/ FrameIncrement

SpecFrame == InitFrame /\ [][NextFrame]_vars

\* ------------------------------------------------------------------------
\* Properties of the frame builder
\* ------------------------------------------------------------------------
\* T.018 information bit n (1-based) of a frame
InfoBit(frame, n) == At(frame, 2 + n - 1)

\* C1: every frame written by t018_build_frame is 252 bits and passes
\* t018_verify_bch (frame_valid is what t018_verify_bch returned for it: 1
\* iff its bits 204..251 are the parity recomputed from its bits 2..203).
C1_BuiltFramePassesBch ==
    /\ frame_bits # <<>> =>
          /\ Len(frame_bits) = T018_FRAME_BITS
          /\ \A k \in 1..T018_FRAME_BITS : frame_bits[k] \in Bit
    /\ frame_valid # -1 => frame_valid = 1

C1_Witness ==
    /\ frame_valid = 1
    /\ beacon_config.type = BEACON_TYPE_ELT_DT
    /\ beacon_config.position.valid = 0
    /\ increments > 0

\* C9: in every built frame the 14 spare bits at T.018 information bits
\* 141..154 are all 1.
C9_SpareBitsAllOnes ==
    frame_bits # <<>> => \A n \in 141..154 : InfoBit(frame_bits, n) = 1

C9_Witness ==
    /\ frame_bits # <<>>
    /\ beacon_config.type = BEACON_TYPE_ELT_DT
    /\ InfoBit(frame_bits, 140) = 1
    /\ InfoBit(frame_bits, 158) = 1

\* C10: in Test mode the frame carries TAC 9999 in T.018 bits 1..16 whatever
\* tac_number is, header bits (1, 0) and test-protocol flag (bit 43) 1; in
\* Exercise mode it carries tac_number, header bits (0, 0) and flag 0.
C10_TestModeFields ==
    frame_bits # <<>> =>
        LET tac == BitsValue([n \in 1..16 |-> InfoBit(frame_bits, n)])
        IN  IF beacon_config.test_mode = 1
            THEN /\ tac = 9999
                 /\ At(frame_bits, 0) = 1
                 /\ At(frame_bits, 1) = 0
                 /\ InfoBit(frame_bits, 43) = 1
            ELSE /\ tac = beacon_config.tac_number
                 /\ At(frame_bits, 0) = 0
                 /\ At(frame_bits, 1) = 0
                 /\ InfoBit(frame_bits, 43) = 0

C10_Witness ==
    /\ frame_bits # <<>>
    /\ beacon_config.test_mode = 1
    /\ beacon_config.tac_number = 65535
    /\ At(frame_bits, 0) = 1

\* the rotating-field kind code of a frame, T.018 information bits 155..158
FrameKind(frame) == BitsValue([n \in 1..4 |-> InfoBit(frame, 154 + n)])

\* the kind codes t018_build_frame can be made to choose by a beacon_config_t
SelectableKinds == {RotatingFieldType(cfg) : cfg \in FrameConfigs}

\* C12: the kind code of a built frame is ELT-DT (1) for beacon type ELT-DT
\* and G008 (0) otherwise, unless the configuration selects RLS (2) or
\* CANCEL (3), which it can do; a CANCEL rotating field has T.018 bits
\* 161..202 all 1.
C12_KindFollowsConfig ==
    frame_bits # <<>> =>
        /\ FrameKind(frame_bits) \in SelectableKinds
        /\ FrameKind(frame_bits) \in {RF_TYPE_G008, RF_TYPE_ELTDT} =>
              FrameKind(frame_bits) =
                  (IF beacon_config.type = BEACON_TYPE_ELT_DT THEN RF_TYPE_ELTDT
                   ELSE RF_TYPE_G008)
        /\ {RF_TYPE_RLS, RF_TYPE_CANCEL} \subseteq SelectableKinds
        /\ FrameKind(frame_bits) = RF_TYPE_CANCEL =>
              \A n \in 161..202 : InfoBit(frame_bits, n) = 1

\* ------------------------------------------------------------------------
\* The frame builder called with configurations a caller can hand over
\* whatever the documented ranges are: beacon_config_t holds a uint16_t
\* country_code, uint32_t tac_number and serial_number, an int-sized enum and
\* two doubles, and parse_args stores atoi/atof results without a test
\* ------------------------------------------------------------------------
ExerciseConfig == [DefaultBeaconConfig EXCEPT !.test_mode = 0]

RangeConfigs ==
    {ExerciseConfig,
     [ExerciseConfig EXCEPT !.country_code = 1024 + 227],
     [ExerciseConfig EXCEPT !.serial_number = 16384 + 13398],
     [ExerciseConfig EXCEPT !.tac_number = 65536 + 10001],
     [ExerciseConfig EXCEPT !.type = 4],
     [ExerciseConfig EXCEPT !.position.latitude = 91 * DegUnit],
     [ExerciseConfig EXCEPT !.position.longitude = -(181 * DegUnit)],
     [ExerciseConfig EXCEPT !.position.latitude = 200 * DegUnit]}

InitRange ==
    /\ PlutoIdle
    /\ EltIdle
    /\ BchIdle
    /\ PrnIdle
    /\ ModIdle
    /\ MainIdle
    /\ config \in RangeConfigs
    /\ beacon_config = DefaultBeaconConfig
    /\ elt_state \in FrameEltStates
    /\ system_time = 0
    /\ activation_time = 0
    /\ last_gps_update_time = 0
    /\ frame_bits = <<>>
    /\ frame_valid = -1
    /\ increments = 0

SpecRange == InitRange /\ [][NextFrame]_vars

\* the ranges of the BeaconConfig fields
ConfigInRange(cfg) ==
    /\ cfg.country_code \in 0..1023
    /\ cfg.serial_number \in 0..16383
    /\ cfg.tac_number \in 0..65535
    /\ cfg.type \in FrameTypes
    /\ cfg.position.latitude >= -(90 * DegUnit)
    /\ cfg.position.latitude <= 90 * DegUnit
    /\ cfg.position.longitude >= -(180 * DegUnit)
    /\ cfg.position.longitude <= 180 * DegUnit

\* C11: a frame is emitted only for a configuration whose fields are all in
\* range; for any other configuration the build reports a failure and
\* leaves no frame (t018_build_frame returns void, so "no frame" is the only
\* way it could report one).
C11_OutOfRangeIsRejected ==
    frame_bits # <<>> => ConfigInRange(beacon_config)

\* ------------------------------------------------------------------------
\* The rotating field as a function of the static times and of the altitude:
\* the statics system_time, activation_time and last_gps_update_time and the
\* altitude of the configuration are drawn, then the frame is built
\* ------------------------------------------------------------------------
\* seconds since activation and since the last GPS fix
ElapsedInputs ==
    {[activation |-> 0, location |-> 0],
     [activation |-> 3599, location |-> 59],
     [activation |-> 3 * 3600, location |-> 5 * 60],
     [activation |-> 63 * 3600 + 3599, location |-> 2046 * 60],
     [activation |-> 64 * 3600, location |-> 2047 * 60],
     [activation |-> 255 * 3600, location |-> 65535 * 60],
     [activation |-> 256 * 3600, location |-> 65536 * 60],
     [activation |-> 300 * 3600, location |-> 70000 * 60]}

AltitudeInputs == {0, 7, 8, 1500, 15944, 15952, 15953, 65535}

RotatingConfigs ==
    {[DefaultBeaconConfig EXCEPT !.type = t, !.position.altitude = a] :
        t \in {BEACON_TYPE_EPIRB, BEACON_TYPE_ELT_DT}, a \in AltitudeInputs}

InitRotating ==
    /\ PlutoIdle
    /\ EltIdle
    /\ BchIdle
    /\ PrnIdle
    /\ ModIdle
    /\ MainIdle
    /\ config \in RotatingConfigs
    /\ beacon_config = DefaultBeaconConfig
    /\ elt_state = DefaultEltState
    /\ \/ /\ system_time = 0
          /\ activation_time = 0
          /\ last_gps_update_time = 0
       \/ \E now \in FrameTimes, e \in ElapsedInputs :
             /\ system_time = now
             /\ activation_time = now - e.activation
             /\ last_gps_update_time = now - e.location
    /\ frame_bits = <<>>
    /\ frame_valid = -1
    /\ increments = 0

SpecRotating == InitRotating /\ [][NextFrame]_vars

\* a field of a frame: the value of T.018 information bits first..last
InfoField(frame, first, last) ==
    BitsValue([n \in 1..(last - first + 1) |-> InfoBit(frame, first + n - 1)])

Min(a, b) == IF a < b THEN a ELSE b

AltitudeCodeRounded(alt) ==
    IF alt <= -400 THEN 0
    ELSE IF alt > 15952 THEN 1022
    ELSE Min((alt + 400 + 8) \div 16, 1022)

\* C14: the 10-bit altitude code of a built frame (T.018 bits 176..185 of a
\* G008 field, 175..184 of an ELT-DT field) is round((alt + 400) / 16)
\* clamped to 0..1022, and so never 1023.
C14_AltitudeCodeIsRounded ==
    frame_bits # <<>> =>
        LET code == IF FrameKind(frame_bits) = RF_TYPE_G008
                    THEN InfoField(frame_bits, 176, 185)
                    ELSE InfoField(frame_bits, 175, 184)
        IN  /\ code = AltitudeCodeRounded(beacon_config.position.altitude)
            /\ code # 1023

\* round(frac * 2^15) of a fractional part of a degree, in grid steps,
\* clamped to [0, 2^15 - 1]
FractionRounded(frac) ==
    Min((frac + DegUnit \div 65536) \div (DegUnit \div 32768), 32767)

\* C24: the 47 position bits of a built frame (T.018 bits 44..90) are all 0
\* when valid = false; otherwise bit 44 is the latitude sign (0 = N,
\* 1 = S), bits 45..51 floor(|lat|), bits 52..66 round(frac(|lat|) * 2^15)
\* clamped to [0, 2^15 - 1], bit 67 the longitude sign (0 = E, 1 = W), bits
\* 68..75 floor(|lon|) and bits 76..90 round(frac(|lon|) * 2^15) clamped the
\* same way: a fraction that rounds up to 2^15 does not wrap to 0.
C24_PositionEncoding ==
    frame_bits # <<>> =>
        LET p == beacon_config.position
            lat == IF p.valid # 0 THEN p.latitude ELSE 0
            lon == IF p.valid # 0 THEN p.longitude ELSE 0
        IN  /\ InfoBit(frame_bits, 44) = IF lat < 0 THEN 1 ELSE 0
            /\ InfoField(frame_bits, 45, 51) = FloatAbs(lat) \div DegUnit
            /\ InfoField(frame_bits, 52, 66)
                  = FractionRounded(FloatAbs(lat) % DegUnit)
            /\ InfoBit(frame_bits, 67) = IF lon < 0 THEN 1 ELSE 0
            /\ InfoField(frame_bits, 68, 75) = FloatAbs(lon) \div DegUnit
            /\ InfoField(frame_bits, 76, 90)
                  = FractionRounded(FloatAbs(lon) % DegUnit)

\* C25: in every built frame the vessel-ID type (T.018 bits 91..93) is 1
\* for an EPIRB, 2 for an ELT or ELT-DT and 0 for a PLB, and the vessel-ID
\* field (bits 94..123) carries the configured identity: the MMSI for an
\* EPIRB and 0 for a PLB.  beacon_config_t holds no MMSI, so the configured
\* MMSI of every EPIRB is zero and its vessel-ID field is to be 0.
C25_VesselIdFollowsConfig ==
    frame_bits # <<>> =>
        /\ InfoField(frame_bits, 91, 93) =
              CASE beacon_config.type = BEACON_TYPE_EPIRB -> 1
                [] beacon_config.type = BEACON_TYPE_ELT -> 2
                [] beacon_config.type = BEACON_TYPE_ELT_DT -> 2
                [] beacon_config.type = BEACON_TYPE_PLB -> 0
        /\ beacon_config.type \in {BEACON_TYPE_EPIRB, BEACON_TYPE_PLB} =>
              InfoField(frame_bits, 94, 123) = 0

\* ------------------------------------------------------------------------
\* ELT sequence management: a caller uses t018_start_elt_sequence,
\* t018_stop_elt_sequence, t018_get_current_interval and
\* t018_increment_transmission_count on the static elt_state
\* ------------------------------------------------------------------------
ELT_PHASE1_INTERVAL == 5000
ELT_PHASE2_INTERVAL == 10000
ELT_PHASE3_INTERVAL == 28500
ELT_PHASE3_RANDOM == 1500

\* transmissions and restarts followed
MaxEltTx == 201
MaxEltStarts == 2

\* values rand() returns
RandInputs == {0, 1499, 1500, 2999, 3000, 2147483647}

\* void t018_start_elt_sequence(void)
t018_start_elt_sequence(st) ==
    [st EXCEPT !.active = 1, !.current_phase = ELT_PHASE_1, !.transmission_count = 0]

\* void t018_stop_elt_sequence(void)
t018_stop_elt_sequence(st) == [st EXCEPT !.active = 0]

\* uint32_t t018_get_current_interval(void), r the value of rand()
t018_get_current_interval(st, r) ==
    CASE st.current_phase = ELT_PHASE_1 -> ELT_PHASE1_INTERVAL
      [] st.current_phase = ELT_PHASE_2 -> ELT_PHASE2_INTERVAL
      [] st.current_phase = ELT_PHASE_3 ->
            ELT_PHASE3_INTERVAL + (r % (ELT_PHASE3_RANDOM * 2)) - ELT_PHASE3_RANDOM
      [] OTHER -> 10000

InitElt ==
    /\ PlutoIdle
    /\ EltIdle
    /\ BchIdle
    /\ PrnIdle
    /\ ModIdle
    /\ FrameIdle
    /\ MainIdle

EltStart ==
    /\ elt_starts < MaxEltStarts
    /\ elt_state' = t018_start_elt_sequence(elt_state)
    /\ elt_tx' = 0
    /\ elt_starts' = elt_starts + 1
    /\ elt_interval' = -1
    /\ UNCHANGED <<config, beacon_config, system_time, activation_time,
                   last_gps_update_time, frame_bits, frame_valid, increments>>
    /\ UNCHANGED eltOthers

EltStop ==
    /\ elt_state' = t018_stop_elt_sequence(elt_state)
    /\ UNCHANGED <<config, beacon_config, system_time, activation_time,
                   last_gps_update_time, frame_bits, frame_valid, increments>>
    /\ UNCHANGED <<eltVars, eltOthers>>

EltGetInterval ==
    /\ \E r \in RandInputs :
          elt_interval' = t018_get_current_interval(elt_state, r)
    /\ UNCHANGED <<elt_tx, elt_starts>>
    /\ UNCHANGED <<frameVars, eltOthers>>

\* t018_increment_transmission_count() after a transmission
EltIncrement ==
    /\ elt_tx < MaxEltTx
    /\ elt_state' = t018_increment_transmission_count(elt_state)
    /\ elt_tx' = elt_tx + 1
    /\ elt_interval' = -1
    /\ UNCHANGED elt_starts
    /\ UNCHANGED <<config, beacon_config, system_time, activation_time,
                   last_gps_update_time, frame_bits, frame_valid, increments>>
    /\ UNCHANGED eltOthers

NextElt == EltStart \/ EltStop \/ EltGetInterval \/ EltIncrement

SpecElt == InitElt /\ [][NextElt]_vars

\* C15: the transmission counter that seeds the G008 test-mode LFSR never
\* decreases from one burst to the next: no call of
\* t018_increment_transmission_count lowers elt_state.transmission_count.
C15_CounterNeverDecreases ==
    [][elt_tx' = elt_tx + 1 =>
          elt_state'.transmission_count >= elt_state.transmission_count]_vars

\* the phase the sequence is in once n transmissions were counted
PhaseAfter(n) ==
    IF n < ELT_PHASE1_COUNT THEN ELT_PHASE_1
    ELSE IF n < ELT_PHASE1_COUNT + ELT_PHASE2_COUNT THEN ELT_PHASE_2
    ELSE ELT_PHASE_3

EltPhaseSchedule ==
    /\ elt_state.current_phase = PhaseAfter(elt_tx)
    /\ elt_interval # -1 =>
          CASE elt_state.current_phase = ELT_PHASE_1 -> elt_interval = 5000
            [] elt_state.current_phase = ELT_PHASE_2 -> elt_interval = 10000
            [] elt_state.current_phase = ELT_PHASE_3 ->
                  /\ elt_interval >= 28500 - 1500
                  /\ elt_interval <= 28500 + 1500

EltPhaseAdvances ==
    \/ elt_state'.current_phase = elt_state.current_phase
    \/ /\ elt_state'.current_phase = elt_state.current_phase + 1
       /\ elt_tx' = elt_tx + 1
    \/ /\ elt_state'.current_phase = ELT_PHASE_1
       /\ elt_starts' = elt_starts + 1

\* C16: the sequence is in phase 1 (interval 5000 ms) while fewer than 36
\* transmissions were counted since the start, in phase 2 (10000 ms) for the
\* next 162, in phase 3 (interval within 28500 +/- 1500 ms) from then on;
\* the phase changes only by advancing one step at a counted transmission
\* or by returning to phase 1 at a t018_start_elt_sequence call.
C16_EltPhases == []EltPhaseSchedule /\ [][EltPhaseAdvances]_vars

C16_Witness ==
    /\ elt_starts = 2
    /\ elt_state.active = 1
    /\ elt_state.current_phase = ELT_PHASE_3
    /\ elt_tx = ELT_PHASE1_COUNT + ELT_PHASE2_COUNT
    /\ elt_interval = 29999

\* ------------------------------------------------------------------------
\* Modulator specification: oqpsk_modulate_frame, called on a built frame.
\* The repository holds two oqpsk_modulator.c: "part_003" (all-zero
\* preamble, half-sine pulse per chip, integer samples per chip) and "src"
\* (src/oqpsk_modulator.c: sample accumulator and linear interpolation).
\* ------------------------------------------------------------------------
PREAMBLE_BITS == 50
FRAME_TOTAL_BITS == 300
OQPSK_TOTAL_SAMPLES == 2600000

ModBuilds == {"part_003", "src"}

\* integer values of OQPSK_SAMPLES_PER_CHIP
SpsInputs == {8, 16, 68}

\* transmit_beacon passes frame_bits, the tools pass the 250 data bits
ModCallers == {"transmit_beacon", "generate_test_from_hex"}

\* static void build_transmission_frame(const uint8_t *frame_bits,
\*                                      uint8_t *output_frame)
build_transmission_frame(build, bits) ==
    [k \in 1..FRAME_TOTAL_BITS |->
        IF k - 1 < PREAMBLE_BITS
        THEN (IF build = "part_003" THEN 0 ELSE (k - 1) % 2)
        ELSE bits[k - PREAMBLE_BITS]]

\* i_bits[i] = tx_frame[2 * i], q_bits[i] = tx_frame[2 * i + 1]
ChannelBits(frame, offset) ==
    [i \in 1..(FRAME_TOTAL_BITS \div 2) |-> frame[2 * (i - 1) + offset + 1]]

\* <<state, chips>> after n passes of the I-channel loop (prn_generate_i
\* and memcpy into i_prn), split in halves to keep the evaluation shallow;
\* each half is bound as a value so that it is evaluated once
RECURSIVE PrnLoopI(_, _)
PrnLoopI(state, n) ==
    IF n = 0 THEN <<state, <<>>>>
    ELSE IF n = 1 THEN prn_generate_i(state)
    ELSE CHOOSE r \in UNION {{<<b[1], a[2] \o b[2]>> :
                                 b \in {PrnLoopI(a[1], n - (n \div 2))}} :
                              a \in {PrnLoopI(state, n \div 2)}} : TRUE

\* the same for the Q-channel loop
RECURSIVE PrnLoopQ(_, _)
PrnLoopQ(state, n) ==
    IF n = 0 THEN <<state, <<>>>>
    ELSE IF n = 1 THEN prn_generate_q(state)
    ELSE CHOOSE r \in UNION {{<<b[1], a[2] \o b[2]>> :
                                 b \in {PrnLoopQ(a[1], n - (n \div 2))}} :
                              a \in {PrnLoopQ(state, n \div 2)}} : TRUE

\* the spreading loop: chip chip_idx belongs to bit chip_idx / 256
SpreadChips(build, bits, prn) ==
    [c \in 1..Len(prn) |->
        LET bit == bits[((c - 1) \div PRN_CHIPS_PER_BIT) + 1]
        IN  IF build = "part_003"
            THEN (IF bit # 0 THEN -prn[c] ELSE prn[c])
            ELSE (IF bit # 0 THEN prn[c] ELSE -prn[c])]

Max(a, b) == IF a > b THEN a ELSE b

\* the smallest range holding two index ranges
Hull(a, b) ==
    IF a.lo > a.hi THEN b
    ELSE IF b.lo > b.hi THEN a
    ELSE [lo |-> Min(a.lo, b.lo), hi |-> Max(a.hi, b.hi)]

\* variant: the Q-channel loop without the test of sample_idx
ChipWrites_Unguarded(channel, chip_idx, sps, total_samples) ==
    IF channel = "I"
    THEN [lo |-> chip_idx * sps, hi |-> chip_idx * sps + sps - 1]
    ELSE [lo |-> chip_idx * sps - sps \div 2,
          hi |-> chip_idx * sps - sps \div 2 + sps - 1]

\* variant: the Q-channel pulses start q_delay_samples after the I pulses
ChipWrites_Delayed(channel, chip_idx, sps, total_samples) ==
    IF channel = "I"
    THEN [lo |-> chip_idx * sps, hi |-> chip_idx * sps + sps - 1]
    ELSE [lo |-> Max(chip_idx * sps + sps \div 2, 0),
          hi |-> Min(chip_idx * sps + sps \div 2 + sps - 1, total_samples - 1)]

\* part_003: the samples chip chip_idx of a channel is added to.  I: from
\* start_sample = chip_idx * sps; Q: from chip_idx * sps - q_delay_samples,
\* only where 0 <= sample_idx < total_samples
ChipWrites(channel, chip_idx, sps, total_samples) ==
    IF channel = "I"
    THEN [lo |-> chip_idx * sps, hi |-> chip_idx * sps + sps - 1]
    ELSE [lo |-> Max(chip_idx * sps - sps \div 2, 0),
          hi |-> Min(chip_idx * sps - sps \div 2 + sps - 1, total_samples - 1)]

\* the samples written by the chip loop of a channel, chips from..to
RECURSIVE ChannelWrites(_, _, _, _, _)
ChannelWrites(channel, from, to, sps, total_samples) ==
    IF from > to THEN NoSamples
    ELSE IF from = to THEN ChipWrites(channel, from, sps, total_samples)
    ELSE CHOOSE r \in
             {Hull(a, b) :
                 a \in {ChannelWrites(channel, from, (from + to) \div 2,
                                      sps, total_samples)},
                 b \in {ChannelWrites(channel, (from + to) \div 2 + 1, to,
                                      sps, total_samples)}} : TRUE

\* part_003: <<samples written, value returned>> of the pulse-shaping part:
\* zero fill of 0..total_samples-1, I loop, Q loop, normalisation, rotation
HalfSineShape(sps) ==
    LET total_samples == FrameChips * sps
        all == [lo |-> 0, hi |-> total_samples - 1]
    IN  <<Hull(all,
               Hull(ChannelWrites("I", 0, FrameChips - 1, sps, total_samples),
                    ChannelWrites("Q", 0, FrameChips - 1, sps, total_samples))),
          total_samples>>

\* src: total_samples after the chips from..to; with an integer number of
\* samples per chip the accumulator gives sps samples for every chip, each
\* written at iq_samples[total_samples++] unless OQPSK_TOTAL_SAMPLES is
\* reached, when the function returns
RECURSIVE InterpolatedCount(_, _, _, _)
InterpolatedCount(total_samples, from, to, sps) ==
    IF from > to THEN total_samples
    ELSE IF from = to THEN Min(total_samples + sps, OQPSK_TOTAL_SAMPLES)
    ELSE CHOOSE r \in
             {InterpolatedCount(a, (from + to) \div 2 + 1, to, sps) :
                 a \in {InterpolatedCount(total_samples, from,
                                          (from + to) \div 2, sps)}} : TRUE

\* src: <<samples written, value returned>>
InterpolatedShape(sps) ==
    LET total_samples == InterpolatedCount(0, 0, FrameChips - 1, sps)
    IN  <<[lo |-> 0, hi |-> total_samples - 1], total_samples>>

\* frames handed to the modulator
ModConfigs ==
    {DefaultBeaconConfig,
     [ExerciseConfig EXCEPT !.type = BEACON_TYPE_ELT_DT, !.position.altitude = 1500]}

\* the UTC time when the frame is built
ModClock == [mday |-> 6, hour |-> 9, min |-> 0]

\* what the caller passes as frame_bits
ModArgument ==
    IF mod_caller = "transmit_beacon" THEN frame_bits
    ELSE SubSeq(frame_bits, 3, T018_FRAME_BITS)

InitMod ==
    /\ PlutoIdle
    /\ EltIdle
    /\ BchIdle
    /\ PrnIdle
    /\ MainIdle
    /\ \E cfg \in ModConfigs, now \in FrameTimes :
          /\ config = cfg
          /\ beacon_config = cfg
          /\ system_time = now
          /\ activation_time = now - 3 * 3600
          /\ last_gps_update_time = now - 5 * 60
          /\ frame_bits = t018_build_frame(cfg, 0, now, now - 3 * 3600,
                                           now - 5 * 60, ModClock)
    /\ elt_state = DefaultEltState
    /\ frame_valid = 1
    /\ increments = 0
    /\ mod_pc = "call"
    /\ mod_build \in ModBuilds
    /\ mod_sps \in SpsInputs
    /\ mod_caller \in ModCallers
    /\ tx_frame = <<>>
    /\ i_bits = <<>>
    /\ q_bits = <<>>
    /\ i_prn = <<>>
    /\ q_prn = <<>>
    /\ iq_written = NoSamples
    /\ num_samples = -1

\* build_transmission_frame, then the split into i_bits and q_bits
ModBuildTxFrame ==
    /\ mod_pc = "call"
    /\ tx_frame' = build_transmission_frame(mod_build, ModArgument)
    /\ i_bits' = ChannelBits(tx_frame', 0)
    /\ q_bits' = ChannelBits(tx_frame', 1)
    /\ mod_pc' = "prn_init"
    /\ UNCHANGED <<mod_build, mod_sps, mod_caller, i_prn, q_prn, iq_written,
                   num_samples>>
    /\ UNCHANGED <<prnVars, modOthers>>

\* prn_init(&prn_state, 0) before the buffers are allocated
ModPrnInit ==
    /\ mod_pc = "prn_init"
    /\ prn_state' = prn_init(0)
    /\ mod_pc' = "malloc"
    /\ UNCHANGED <<i_out, q_out, i_calls, q_calls, prn_valid>>
    /\ UNCHANGED <<mod_build, mod_sps, mod_caller, tx_frame, i_bits, q_bits,
                   i_prn, q_prn, iq_written, num_samples>>
    /\ UNCHANGED modOthers

\* malloc of i_prn and q_prn: if (!i_prn || !q_prn) return 0;
ModAllocate ==
    /\ mod_pc = "malloc"
    /\ \/ /\ mod_pc' = "generate"
          /\ UNCHANGED num_samples
       \/ /\ mod_pc' = "done"
          /\ num_samples' = 0
    /\ UNCHANGED <<mod_build, mod_sps, mod_caller, tx_frame, i_bits, q_bits,
                   i_prn, q_prn, iq_written>>
    /\ UNCHANGED <<prnVars, modOthers>>

\* the I-channel loop (150 times prn_generate_i and memcpy of i_chunk into
\* i_prn), prn_init(&prn_state, 0) again, and the same Q-channel loop
ModGeneratePrn ==
    /\ mod_pc = "generate"
    /\ LET i_run == PrnLoopI(prn_state, OQPSK_BITS_PER_CHANNEL)
           q_run == PrnLoopQ(prn_init(0), OQPSK_BITS_PER_CHANNEL)
       IN  /\ i_prn' = i_run[2]
           /\ q_prn' = q_run[2]
           /\ prn_state' = q_run[1]
    /\ i_calls' = OQPSK_BITS_PER_CHANNEL
    /\ q_calls' = OQPSK_BITS_PER_CHANNEL
    /\ mod_pc' = "spread"
    /\ UNCHANGED <<i_out, q_out, prn_valid>>
    /\ UNCHANGED <<mod_build, mod_sps, mod_caller, tx_frame, i_bits, q_bits,
                   iq_written, num_samples>>
    /\ UNCHANGED modOthers

\* the spreading loop over the 150 bits and 256 chips of both channels
ModSpread ==
    /\ mod_pc = "spread"
    /\ i_prn' = SpreadChips(mod_build, i_bits, i_prn)
    /\ q_prn' = SpreadChips(mod_build, q_bits, q_prn)
    /\ mod_pc' = "shape"
    /\ UNCHANGED <<mod_build, mod_sps, mod_caller, tx_frame, i_bits, q_bits,
                   iq_written, num_samples>>
    /\ UNCHANGED <<prnVars, modOthers>>

\* the sample loops, free(i_prn), free(q_prn) and the return
ModShape ==
    /\ mod_pc = "shape"
    /\ LET r == IF mod_build = "part_003" THEN HalfSineShape(mod_sps)
                ELSE InterpolatedShape(mod_sps)
       IN  /\ iq_written' = r[1]
           /\ num_samples' = r[2]
    /\ i_prn' = <<>>
    /\ q_prn' = <<>>
    /\ mod_pc' = "done"
    /\ UNCHANGED <<mod_build, mod_sps, mod_caller, tx_frame, i_bits, q_bits>>
    /\ UNCHANGED <<prnVars, modOthers>>

NextMod ==
    \/ ModBuildTxFrame
    \/ ModPrnInit
    \/ ModAllocate
    \/ ModGeneratePrn
    \/ ModSpread
    \/ ModShape

SpecMod == InitMod /\ [][NextMod]_vars

C18_PreambleAllZero ==
    tx_frame # <<>> =>
        /\ Len(tx_frame) = FRAME_TOTAL_BITS
        /\ \A k \in 1..PREAMBLE_BITS : tx_frame[k] = 0
        /\ \A i \in 1..(PREAMBLE_BITS \div 2) : i_bits[i] = 0 /\ q_bits[i] = 0

\* C19: when the main program (transmit_beacon) modulates a frame built by
\* t018_build_frame, the 250 message bits after the preamble are the
\* frame's positions 2..251: the 202 information bits and all 48 parity
\* bits, without the 2 header bits.
C19_MessageBitsAreFrameData ==
    (mod_caller = "transmit_beacon" /\ tx_frame # <<>>) =>
        SubSeq(tx_frame, PREAMBLE_BITS + 1, FRAME_TOTAL_BITS)
            = SubSeq(frame_bits, 3, T018_FRAME_BITS)

\* the 38400 Normal-mode PRN chips of a frame on each channel
FramePrnI == LfsrRun(PRN_INIT_NORMAL_I, FrameChips)[1]

FramePrnQ == LfsrRun(PRN_INIT_NORMAL_Q, FrameChips)[1]

\* C20: for each channel and each of its 150 bits b, the 256 spread chips
\* are the channel's next 256 PRN chips, negated when b = 1 and unchanged
\* when b = 0, so the chips of a bit depend on that bit only; every spread
\* chip is -1 or +1.
C20_SpreadingPolarity ==
    mod_pc = "shape" =>
        /\ Len(i_prn) = FrameChips
        /\ Len(q_prn) = FrameChips
        /\ \A c \in 1..FrameChips :
              LET bit == ((c - 1) \div PRN_CHIPS_PER_BIT) + 1
              IN  /\ i_prn[c] = IF i_bits[bit] = 1 THEN -FramePrnI[c] ELSE FramePrnI[c]
                  /\ q_prn[c] = IF q_bits[bit] = 1 THEN -FramePrnQ[c] ELSE FramePrnQ[c]
                  /\ i_prn[c] \in {-1, 1}
                  /\ q_prn[c] \in {-1, 1}

\* part_003: int start_sample of chip chip_idx in the I loop and in the Q
\* loop, with q_delay_samples = OQPSK_SAMPLES_PER_CHIP / 2
start_sample(channel, chip_idx, sps) ==
    IF channel = "I" THEN chip_idx * sps
    ELSE chip_idx * sps - sps \div 2

\* src: the first sample in which chip chip_idx has a weight: in the
\* samples s = 0..sps-1 of the chip (index chip_idx * sps + s) curr_i_chip
\* has the weight fraction = s / sps, and curr_q_chip the weight
\* (fraction - 0.5) * 2 once fraction >= 0.5
InterpolatedStart(channel, chip_idx, sps) ==
    IF channel = "I" THEN chip_idx * sps + 1
    ELSE chip_idx * sps + sps \div 2 + 1

\* the first sample carrying chip chip_idx of a channel
ChipStart(build, channel, chip_idx, sps) ==
    IF build = "part_003" THEN start_sample(channel, chip_idx, sps)
    ELSE InterpolatedStart(channel, chip_idx, sps)

\* C21: in the modulated waveform the Q channel is delayed by half a chip
\* (sps / 2 samples) relative to the I channel: for every chip index k the
\* samples carrying Q chip k begin sps / 2 samples after the samples
\* carrying I chip k.
C21_QLagsIByHalfChip ==
    (mod_pc = "done" /\ i_calls # 0) =>
        \A k \in 0..(FrameChips - 1) :
            ChipStart(mod_build, "Q", k, mod_sps)
                = ChipStart(mod_build, "I", k, mod_sps) + mod_sps \div 2

RECURSIVE Tiles(_, _, _, _, _, _)
Tiles(channel, from, to, sps, total_samples, first) ==
    IF from > to THEN first - 1
    ELSE IF from = to
    THEN (IF ChipWrites(channel, from, sps, total_samples).lo = first
          THEN ChipWrites(channel, from, sps, total_samples).hi
          ELSE -2)
    ELSE CHOOSE r \in
             {(IF a = -2 THEN -2
               ELSE Tiles(channel, (from + to) \div 2 + 1, to, sps,
                          total_samples, a + 1)) :
                 a \in {Tiles(channel, from, (from + to) \div 2, sps,
                              total_samples, first)}} : TRUE

MainStartup_NoVerify ==
    <<"parse_args", "t018_init", "pluto_init", "configure_tx", "loop">>

\* the order of the startup calls of main
MainStartup ==
    <<"parse_args", "t018_init", "prn_verify", "pluto_init", "configure_tx", "loop">>

MainAfter(step) ==
    LET k == CHOOSE j \in 1..Len(MainStartup) : MainStartup[j] = step
    IN  MainStartup[k + 1]

\* variant: the loop goes on after a burst in file mode too
AfterBurst_NoBreak(file_mode, run) ==
    IF run # 0 THEN "wait" ELSE "loop"

\* main after t018_increment_transmission_count: break in file mode, else
\* the wait loop if (running)
AfterBurst(file_mode, run) ==
    IF file_mode # 0 THEN "cleanup"
    ELSE IF run # 0 THEN "wait" ELSE "loop"

\* variant: the wait loop does not test running
WaitContinues_Deaf(i, tx_interval_sec, run) == i < tx_interval_sec

\* i < config.tx_interval_sec && running
WaitContinues(i, tx_interval_sec, run) == i < tx_interval_sec /\ run # 0

\* command lines: the options -t, -m, -i and -o over the defaults
MainConfigs ==
    {[default_config EXCEPT !.beacon_type = t, !.test_mode = m,
                            !.tx_interval_sec = i, !.file_mode = f] :
        t \in {BEACON_TYPE_EPIRB, BEACON_TYPE_ELT_DT}, m \in {0, 1},
        i \in {0, 2}, f \in {0, 1}}

\* beacon_config_t beacon_cfg of transmit_beacon
BeaconCfg(c) ==
    [type |-> c.beacon_type, country_code |-> c.country_code,
     tac_number |-> c.tac_number, serial_number |-> c.serial_number,
     test_mode |-> c.test_mode,
     position |-> [latitude |-> c.latitude, longitude |-> c.longitude,
                   altitude |-> c.altitude, valid |-> 1]]

InitMain ==
    /\ PlutoIdle
    /\ EltIdle
    /\ BchIdle
    /\ PrnIdle
    /\ ModIdle
    /\ FrameIdle
    /\ main_pc = "parse_args"
    /\ burst = NoBurst
    /\ cleanups = 0
    /\ running = 1
    /\ app_config = default_config
    /\ prn_ok = -1
    /\ pluto_state = "none"
    /\ tx_count = 0
    /\ wait_i = 0
    /\ exit_code = -1
    /\ built = 0
    /\ modulated = 0
    /\ sent = 0
    /\ saved = 0

\* signal_handler, at any point of a running main
MainSignal ==
    /\ main_pc \notin {"off", "exit"}
    /\ UNCHANGED <<burst, cleanups>>
    /\ running = 1
    /\ running' = 0
    /\ UNCHANGED <<main_pc, app_config, prn_ok, pluto_state, tx_count, wait_i,
                   exit_code, built, modulated, sent, saved>>
    /\ UNCHANGED <<frameVars, mainOthers>>

\* parse_args: -h or an unknown option makes main return 1
MainParseArgs ==
    /\ main_pc = "parse_args"
    /\ UNCHANGED <<burst, cleanups>>
    /\ \/ /\ app_config' \in MainConfigs
          /\ main_pc' = MainAfter("parse_args")
          /\ UNCHANGED exit_code
       \/ /\ app_config' = default_config
          /\ main_pc' = "exit"
          /\ exit_code' = 1
    /\ UNCHANGED <<running, prn_ok, pluto_state, tx_count, wait_i,
                   built, modulated, sent, saved>>
    /\ UNCHANGED <<frameVars, mainOthers>>

\* t018_init()
MainT018Init ==
    /\ main_pc = "t018_init"
    /\ UNCHANGED <<burst, cleanups>>
    /\ \E now \in FrameTimes :
          /\ system_time' = now
          /\ activation_time' = now - 3 * 3600
          /\ last_gps_update_time' = now - 5 * 60
    /\ main_pc' = MainAfter("t018_init")
    /\ UNCHANGED <<config, beacon_config, elt_state, frame_bits, frame_valid, increments>>
    /\ UNCHANGED <<running, app_config, prn_ok, pluto_state, tx_count, wait_i,
                   exit_code, built, modulated, sent, saved>>
    /\ UNCHANGED mainOthers

\* if (!prn_verify_table_2_2()) return 1;
MainVerifyPrn ==
    /\ main_pc = "prn_verify"
    /\ UNCHANGED <<burst, cleanups>>
    /\ prn_ok' = prn_verify_table_2_2
    /\ IF prn_ok' = 0
       THEN main_pc' = "exit" /\ exit_code' = 1
       ELSE main_pc' = MainAfter("prn_verify") /\ UNCHANGED exit_code
    /\ UNCHANGED <<running, app_config, pluto_state, tx_count, wait_i,
                   built, modulated, sent, saved>>
    /\ UNCHANGED <<frameVars, mainOthers>>

\* pluto_init, skipped in file mode; the device decides the outcome
MainPlutoInit ==
    /\ main_pc = "pluto_init"
    /\ UNCHANGED <<burst, cleanups>>
    /\ IF app_config.file_mode # 0
       THEN /\ main_pc' = "loop"
            /\ UNCHANGED <<pluto_state, exit_code>>
       ELSE \/ /\ pluto_state' = "initialized"
               /\ main_pc' = MainAfter("pluto_init")
               /\ UNCHANGED exit_code
            \/ /\ pluto_state' = "init_failed"
               /\ main_pc' = "exit"
               /\ exit_code' = 1
    /\ UNCHANGED <<running, app_config, prn_ok, tx_count, wait_i,
                   built, modulated, sent, saved>>
    /\ UNCHANGED <<frameVars, mainOthers>>

\* pluto_configure_tx, with pluto_cleanup when it fails
MainConfigureTx ==
    /\ main_pc = "configure_tx"
    /\ UNCHANGED burst
    /\ \/ /\ pluto_state' = "configured"
          /\ main_pc' = MainAfter("configure_tx")
          /\ UNCHANGED <<exit_code, cleanups>>
       \/ /\ pluto_state' = "cleaned"
          /\ cleanups' = cleanups + 1
          /\ main_pc' = "exit"
          /\ exit_code' = 1
    /\ UNCHANGED <<running, app_config, prn_ok, tx_count, wait_i,
                   built, modulated, sent, saved>>
    /\ UNCHANGED <<frameVars, mainOthers>>

\* while (running) { tx_count++; ...
MainLoopTest ==
    /\ main_pc = "loop"
    /\ UNCHANGED <<burst, cleanups>>
    /\ IF running # 0
       THEN /\ tx_count < MaxTx
            /\ tx_count' = tx_count + 1
            /\ main_pc' = "build"
       ELSE /\ main_pc' = "cleanup"
            /\ UNCHANGED tx_count
    /\ UNCHANGED <<running, app_config, prn_ok, pluto_state, wait_i,
                   exit_code, built, modulated, sent, saved>>
    /\ UNCHANGED <<frameVars, mainOthers>>

\* transmit_beacon: t018_build_frame and t018_print_frame
MainBuildFrame ==
    /\ main_pc = "build"
    /\ UNCHANGED <<burst, cleanups>>
    /\ LET cfg == BeaconCfg(app_config)
       IN  /\ config' = cfg
           /\ beacon_config' = cfg
           /\ \E clock \in (IF cfg.type = BEACON_TYPE_ELT_DT THEN FrameClocks
                            ELSE {[mday |-> 1, hour |-> 0, min |-> 0]}) :
                 frame_bits' = t018_build_frame(cfg, elt_state.transmission_count,
                                                system_time, activation_time,
                                                last_gps_update_time, clock)
           /\ activation_time' =
                 IF RotatingFieldType(cfg) = RF_TYPE_G008 /\ activation_time = 0
                 THEN system_time ELSE activation_time
    /\ frame_valid' = t018_verify_bch(frame_bits')
    /\ built' = built + 1
    /\ main_pc' = "modulate"
    /\ UNCHANGED <<elt_state, system_time, last_gps_update_time, increments>>
    /\ UNCHANGED <<running, app_config, prn_ok, pluto_state, tx_count, wait_i,
                   exit_code, modulated, sent, saved>>
    /\ UNCHANGED mainOthers

\* samples per chip of the modulator built into the transmitter
RRC_SAMPLES_PER_CHIP == 16

\* what oqpsk_modulate_frame returns: 0 when its PRN buffers cannot be
\* allocated, else the number of samples
ModulatorReturns == {0, FrameChips * RRC_SAMPLES_PER_CHIP}

\* what the verification finds in n_samples samples: a NaN or Inf sample,
\* the I and Q extremes within +/-1.5, and avg_power (the sum of the powers
\* divided by the number of samples, NaN for 0 / 0) against the accepted range
BurstStats(n_samples) ==
    IF n_samples = 0
    THEN {[invalid |-> FALSE, in_range |-> TRUE, avg_power |-> "nan"]}
    ELSE {[invalid |-> FALSE, in_range |-> TRUE, avg_power |-> "in_range"],
          [invalid |-> TRUE, in_range |-> TRUE, avg_power |-> "nan"],
          [invalid |-> FALSE, in_range |-> FALSE, avg_power |-> "in_range"],
          [invalid |-> FALSE, in_range |-> TRUE, avg_power |-> "below"],
          [invalid |-> FALSE, in_range |-> TRUE, avg_power |-> "above"]}

\* uint8_t oqpsk_verify_output(const float complex *iq_samples,
\*                             uint32_t num_samples)
oqpsk_verify_output(stats) ==
    IF stats.invalid THEN 0
    ELSE IF ~stats.in_range THEN 0
    ELSE IF stats.avg_power = "below" \/ stats.avg_power = "above" THEN 0
    ELSE 1

\* transmit_beacon: malloc, oqpsk_modulate_frame, oqpsk_verify_output; the
\* allocators and the samples decide the outcome
MainModulate ==
    /\ main_pc = "modulate"
    /\ UNCHANGED cleanups
    /\ \/ /\ main_pc' = "cleanup"
          /\ UNCHANGED <<modulated, burst>>
       \/ /\ modulated' = modulated + 1
          /\ \E n \in ModulatorReturns : \E st \in BurstStats(n) :
                burst' = [num_samples |-> n, stats |-> st,
                          verified |-> oqpsk_verify_output(st)]
          /\ main_pc' = IF burst'.verified = 0 THEN "cleanup" ELSE "output"
    /\ UNCHANGED <<running, app_config, prn_ok, pluto_state, tx_count, wait_i,
                   exit_code, built, sent, saved>>
    /\ UNCHANGED <<frameVars, mainOthers>>

\* transmit_beacon: pluto_save_iq_file or pluto_transmit_iq, then free; both
\* return -1 for num_samples == 0, and the device or the file system can
\* fail
MainOutput ==
    /\ main_pc = "output"
    /\ UNCHANGED <<burst, cleanups>>
    /\ \/ /\ burst.num_samples # 0
          /\ IF app_config.file_mode # 0
             THEN saved' = saved + 1 /\ UNCHANGED sent
             ELSE sent' = sent + 1 /\ UNCHANGED saved
          /\ main_pc' = "increment"
       \/ /\ main_pc' = "cleanup"
          /\ UNCHANGED <<sent, saved>>
    /\ UNCHANGED <<running, app_config, prn_ok, pluto_state, tx_count, wait_i,
                   exit_code, built, modulated>>
    /\ UNCHANGED <<frameVars, mainOthers>>

\* t018_increment_transmission_count(); file mode leaves the loop
MainIncrement ==
    /\ main_pc = "increment"
    /\ UNCHANGED <<burst, cleanups>>
    /\ elt_state' = t018_increment_transmission_count(elt_state)
    /\ increments' = increments + 1
    /\ wait_i' = 0
    /\ main_pc' = AfterBurst(app_config.file_mode, running)
    /\ UNCHANGED <<config, beacon_config, system_time, activation_time,
                   last_gps_update_time, frame_bits, frame_valid>>
    /\ UNCHANGED <<running, app_config, prn_ok, pluto_state, tx_count,
                   exit_code, built, modulated, sent, saved>>
    /\ UNCHANGED mainOthers

\* for (i = 0; i < config.tx_interval_sec && running; i++): the test
MainWait ==
    /\ main_pc = "wait"
    /\ UNCHANGED <<burst, cleanups, wait_i>>
    /\ main_pc' = IF WaitContinues(wait_i, app_config.tx_interval_sec, running)
                  THEN "sleep" ELSE "loop"
    /\ UNCHANGED <<running, app_config, prn_ok, pluto_state, tx_count,
                   exit_code, built, modulated, sent, saved>>
    /\ UNCHANGED <<frameVars, mainOthers>>

\* sleep(1); i++
MainSleep ==
    /\ main_pc = "sleep"
    /\ UNCHANGED <<burst, cleanups>>
    /\ wait_i' = wait_i + 1
    /\ main_pc' = "wait"
    /\ UNCHANGED <<running, app_config, prn_ok, pluto_state, tx_count,
                   exit_code, built, modulated, sent, saved>>
    /\ UNCHANGED <<frameVars, mainOthers>>

\* pluto_cleanup unless in file mode, return 0
MainCleanup ==
    /\ main_pc = "cleanup"
    /\ pluto_state' = IF app_config.file_mode = 0 THEN "cleaned" ELSE pluto_state
    /\ cleanups' = IF app_config.file_mode = 0 THEN cleanups + 1 ELSE cleanups
    /\ UNCHANGED burst
    /\ exit_code' = 0
    /\ main_pc' = "exit"
    /\ UNCHANGED <<running, app_config, prn_ok, tx_count, wait_i,
                   built, modulated, sent, saved>>
    /\ UNCHANGED <<frameVars, mainOthers>>

NextMain ==
    \/ MainSignal
    \/ MainParseArgs
    \/ MainT018Init
    \/ MainVerifyPrn
    \/ MainPlutoInit
    \/ MainConfigureTx
    \/ MainLoopTest
    \/ MainBuildFrame
    \/ MainModulate
    \/ MainOutput
    \/ MainIncrement
    \/ MainWait
    \/ MainSleep
    \/ MainCleanup

SpecMain == InitMain /\ [][NextMain]_vars

\* the steps of main after t018_build_frame and before it: every call of
\* main returns (sleep(1) ends, the device and file calls return), so a
\* running main goes on to its next step
MainProgram ==
    \/ MainParseArgs
    \/ MainT018Init
    \/ MainVerifyPrn
    \/ MainPlutoInit
    \/ MainConfigureTx
    \/ MainLoopTest
    \/ MainModulate
    \/ MainOutput
    \/ MainIncrement
    \/ MainWait
    \/ MainSleep
    \/ MainCleanup

\* main scheduled fairly.  MainBuildFrame is enabled exactly when main_pc =
\* "build" and leaves that position, so weak fairness of it is the last
\* conjunct
SpecMainLive ==
    /\ SpecMain
    /\ WF_vars(MainProgram)
    /\ []<>(main_pc # "build")

\* C7: the PRN self-check is a hard gate: within a run no frame is built,
\* modulated, transmitted or saved, and the PlutoSDR is not touched, unless
\* prn_verify_table_2_2 returned 1 before; after a 0 the program has stopped
\* with nothing initialised and no burst.
C7_PrnSelfCheckIsHardGate ==
    /\ (\/ built > 0 \/ modulated > 0 \/ sent > 0 \/ saved > 0
        \/ frame_bits # <<>>
        \/ pluto_state # "none"
        \/ main_pc \in {"pluto_init", "configure_tx", "loop", "build", "modulate",
                        "output", "increment", "wait", "sleep", "cleanup"})
          => prn_ok = 1
    /\ prn_ok = 0 =>
          /\ main_pc = "exit"
          /\ exit_code = 1
          /\ pluto_state = "none"
          /\ built = 0 /\ modulated = 0 /\ sent = 0 /\ saved = 0

C7_Witness ==
    /\ prn_ok = 1
    /\ sent > 1
    /\ pluto_state = "cleaned"
    /\ main_pc = "exit"

\* C23: the output of the modulator is gated by the sanity check:
\* pluto_transmit_iq or pluto_save_iq_file is called only after
\* oqpsk_verify_output returned 1 for the buffer just modulated, which then
\* holds no NaN or Inf, has every I and Q within +/-1.5 and an average power
\* within the accepted range, the sample count being the one the modulator
\* returned; after a 0 nothing is sent or saved and the main loop stops.
C23_OutputGatedByVerify ==
    /\ main_pc = "output" =>
          /\ burst.verified = 1
          /\ burst.num_samples \in ModulatorReturns
          /\ ~burst.stats.invalid
          /\ burst.stats.in_range
          /\ burst.stats.avg_power = "in_range"
    /\ burst.verified = 0 =>
          /\ main_pc \in {"cleanup", "exit"}
          /\ sent + saved = increments
          /\ sent + saved < modulated

\* what both readings of C26 share: file mode never loops and never touches
\* the PlutoSDR; PlutoSDR mode leaves the loop only after a shutdown signal
\* or a failed burst
ModesCommon ==
    /\ app_config.file_mode # 0 =>
          /\ pluto_state = "none"
          /\ cleanups = 0
          /\ sent = 0
          /\ main_pc \notin {"configure_tx", "wait", "sleep"}
          /\ tx_count <= 1 /\ built <= 1 /\ saved <= 1 /\ increments <= 1
    /\ (app_config.file_mode = 0 /\ (main_pc = "cleanup" \/ pluto_state = "cleaned")
            /\ tx_count > 0 /\ running # 0) => sent < tx_count
    /\ (app_config.file_mode = 0 /\ main_pc = "cleanup" /\ tx_count = 0) => running = 0
    /\ (app_config.file_mode = 0 /\ main_pc = "wait") => sent = tx_count

C30_InterruptBetweenBursts ==
    /\ [][running = 0 => /\ tx_count' = tx_count
                         /\ built' <= tx_count
                         /\ running' = 0]_vars
    /\ [][(running = 0 /\ main_pc = "wait") => main_pc' # "sleep"]_vars
    /\ [](cleanups <= 1)
    /\ [](main_pc = "exit" =>
            (cleanups = 1 <=> pluto_state \notin {"none", "init_failed"}))
    /\ [](pluto_state \in {"initialized", "configured"} =>
            (cleanups = 0 /\ main_pc # "exit"))
    /\ (running = 0) ~> (main_pc = "exit")

C30_Witness ==
    /\ running = 0
    /\ main_pc = "exit"
    /\ app_config.file_mode = 0
    /\ pluto_state = "cleaned"
    /\ cleanups = 1
    /\ sent = 1
    /\ tx_count = 1
    /\ wait_i = 1
    /\ app_config.tx_interval_sec = 2

\* ------------------------------------------------------------------------
\* The PlutoSDR interface: pluto_init, pluto_configure_tx, pluto_enable_tx,
\* pluto_transmit_iq and pluto_cleanup called in any order on the static
\* pluto_ctx; libiio and the device decide what succeeds
\* ------------------------------------------------------------------------
MaxPlutoCalls == 3

\* const uint32_t CHUNK_SIZE = 65536;
CHUNK_SIZE == 65536

\* the two pluto_transmit_iq of the repository
PlutoBuilds == {"part_004", "src"}

\* where pluto_init stops
InitOutcomes == {"no_context", "no_device", "no_channel", "ok"}

\* int pluto_init(pluto_ctx_t *ctx, const char *uri): ctx after the call
pluto_init(outcome) ==
    CASE outcome = "no_context" -> PlutoZero
      [] outcome = "no_device" -> PlutoZero
      [] outcome = "no_channel" -> [PlutoZero EXCEPT !.tx_dev = 1]
      [] OTHER -> [ctx |-> 1, tx_dev |-> 1, tx_i |-> 1, tx_q |-> 1, tx_buf |-> 0,
                   initialized |-> 1]

\* pluto_transmit_iq:
\* if (!ctx || !ctx->tx_dev || !iq_samples || num_samples == 0) return -1;
TransmitRefuses(c, iq_samples, n_samples) ==
    c.tx_dev = 0 \/ iq_samples = 0 \/ n_samples = 0

\* pluto_configure_tx and pluto_enable_tx:
\* if (!ctx || !ctx->ctx || !ctx->initialized) return -1;
ControlRefuses(c) == c.ctx = 0 \/ c.initialized = 0

\* the size of the IIO buffer pluto_transmit_iq asks for when left samples
\* remain: part_004 cuts the burst in chunks, src/pluto_control.c makes one
\* buffer of the whole burst
ChunkSamples(build, left) ==
    IF build = "part_004" THEN Min(left, CHUNK_SIZE) ELSE left

\* where a pluto_transmit_iq call fails: in its chunk-th pass, at
\* iio_device_create_buffer, iio_buffer_start or iio_buffer_push
NoFailure == [chunk |-> -1, at |-> "none"]

TransmitFailures ==
    {NoFailure} \cup
    {[chunk |-> k, at |-> a] : k \in {0, 1, 9}, a \in {"create", "start", "push"}}

\* pluto_transmit_iq when it begins
TransmitStart(n_samples) ==
    [fn |-> "transmit_iq", ret |-> -2, num_samples |-> n_samples, created |-> 0,
     destroyed |-> 0, pushed |-> <<>>, dead_use |-> FALSE, tx_buf |-> 0]

\* one pass of pluto_transmit_iq from the buffer creation to total_sent +=
\* chunk_samples (the whole body in src/pluto_control.c): run.pushed lists
\* <<first sample, number of samples>> of every buffer pushed
TransmitPass(run, build, failure) ==
    LET chunk_samples == ChunkSamples(build, run.num_samples - run.total_sent)
        pass == Len(run.pushed)
    IN  IF failure = [chunk |-> pass, at |-> "create"]
        THEN [run EXCEPT !.tx_buf = 0, !.ret = -1]
        ELSE IF failure = [chunk |-> pass, at |-> "start"]
        THEN [run EXCEPT !.created = @ + 1, !.destroyed = @ + 1, !.tx_buf = 0,
                         !.ret = -1]
        ELSE IF failure = [chunk |-> pass, at |-> "push"]
        THEN [run EXCEPT !.created = @ + 1, !.destroyed = @ + 1, !.tx_buf = 0,
                         !.ret = -1]
        ELSE [run EXCEPT !.created = @ + 1, !.destroyed = @ + 1, !.tx_buf = 0,
                         !.pushed = Append(@, <<run.total_sent, chunk_samples>>),
                         !.total_sent = @ + chunk_samples]

\* while (total_sent < num_samples) { ... } return total_sent;
RECURSIVE TransmitLoop(_, _, _)
TransmitLoop(run, build, failure) ==
    IF run.ret = -1 THEN run
    ELSE IF run.total_sent >= run.num_samples
    THEN [run EXCEPT !.ret = run.total_sent]
    ELSE CHOOSE r \in {TransmitLoop(next, build, failure) :
                          next \in {TransmitPass(run, build, failure)}} : TRUE

\* int pluto_transmit_iq(pluto_ctx_t *ctx, const float complex *iq_samples,
\*                       uint32_t num_samples): the call as a record, with
\* ctx->tx_buf at the return.  alive tells whether ctx->tx_dev is a device of
\* an existing IIO context
pluto_transmit_iq(build, c, alive, iq_samples, n_samples, failure) ==
    IF TransmitRefuses(c, iq_samples, n_samples)
    THEN [TransmitStart(n_samples) EXCEPT !.ret = -1, !.tx_buf = c.tx_buf]
    ELSE LET run == TransmitLoop(
                        [total_sent |-> 0] @@ TransmitStart(n_samples),
                        build, failure)
         IN  [f \in DOMAIN TransmitStart(n_samples) |->
                 IF f = "dead_use" THEN ~alive ELSE run[f]]

\* num_samples of the calls: none, one, a full chunk, one more, and the burst
\* of the transmitter
PlutoSampleCounts ==
    {0, 1, CHUNK_SIZE, CHUNK_SIZE + 1, FrameChips * RRC_SAMPLES_PER_CHIP}

\* a call record without the tx_buf field, which is kept in pl_ctx
CallRecord(call) == [f \in DOMAIN NoCall |-> call[f]]

InitPluto ==
    /\ EltIdle
    /\ BchIdle
    /\ PrnIdle
    /\ ModIdle
    /\ FrameIdle
    /\ MainIdle
    /\ pl_build \in PlutoBuilds
    /\ pl_ctx = PlutoZero
    /\ dev_alive = FALSE
    /\ pl_call = NoCall
    /\ pl_calls = 0

\* pluto_init(&pluto_ctx, uri)
PlutoInit ==
    /\ pl_calls < MaxPlutoCalls
    /\ pl_calls' = pl_calls + 1
    /\ \E outcome \in InitOutcomes :
          /\ pl_ctx' = pluto_init(outcome)
          /\ dev_alive' = (outcome = "ok")
          /\ pl_call' = [NoCall EXCEPT !.fn = "init",
                                       !.ret = IF outcome = "ok" THEN 0 ELSE -1]
    /\ UNCHANGED pl_build
    /\ UNCHANGED plutoOthers

\* pluto_configure_tx(&pluto_ctx, frequency, gain_db, sample_rate)
PlutoConfigureTx ==
    /\ pl_calls < MaxPlutoCalls
    /\ pl_calls' = pl_calls + 1
    /\ \E r \in (IF ControlRefuses(pl_ctx) THEN {-1} ELSE {0, -1}) :
          pl_call' = [NoCall EXCEPT !.fn = "configure_tx", !.ret = r,
                         !.dead_use = ~ControlRefuses(pl_ctx) /\ ~dev_alive]
    /\ UNCHANGED <<pl_build, pl_ctx, dev_alive>>
    /\ UNCHANGED plutoOthers

\* pluto_enable_tx(&pluto_ctx, enable)
PlutoEnableTx ==
    /\ pl_calls < MaxPlutoCalls
    /\ pl_calls' = pl_calls + 1
    /\ \E r \in (IF ControlRefuses(pl_ctx) THEN {-1} ELSE {0, -1}) :
          pl_call' = [NoCall EXCEPT !.fn = "enable_tx", !.ret = r,
                         !.dead_use = ~ControlRefuses(pl_ctx) /\ ~dev_alive]
    /\ UNCHANGED <<pl_build, pl_ctx, dev_alive>>
    /\ UNCHANGED plutoOthers

\* pluto_transmit_iq(&pluto_ctx, iq_samples, num_samples)
PlutoTransmitIq ==
    /\ pl_calls < MaxPlutoCalls
    /\ pl_calls' = pl_calls + 1
    /\ \E iq_samples \in {0, 1}, n_samples \in PlutoSampleCounts,
          failure \in TransmitFailures :
          LET call == pluto_transmit_iq(pl_build, pl_ctx, dev_alive, iq_samples,
                                        n_samples, failure)
          IN  /\ pl_call' = CallRecord(call)
              /\ pl_ctx' = [pl_ctx EXCEPT !.tx_buf = call.tx_buf]
    /\ UNCHANGED <<pl_build, dev_alive>>
    /\ UNCHANGED plutoOthers

\* pluto_cleanup(&pluto_ctx)
PlutoCleanup ==
    /\ pl_calls < MaxPlutoCalls
    /\ pl_calls' = pl_calls + 1
    /\ pl_ctx' = [pl_ctx EXCEPT !.tx_buf = 0, !.ctx = 0, !.initialized = 0]
    /\ dev_alive' = IF pl_ctx.ctx # 0 THEN FALSE ELSE dev_alive
    /\ pl_call' = [NoCall EXCEPT !.fn = "cleanup",
                                 !.destroyed = IF pl_ctx.tx_buf # 0 THEN 1 ELSE 0]
    /\ UNCHANGED pl_build
    /\ UNCHANGED plutoOthers

NextPluto ==
    \/ PlutoInit
    \/ PlutoConfigureTx
    \/ PlutoEnableTx
    \/ PlutoTransmitIq
    \/ PlutoCleanup

SpecPluto == InitPluto /\ [][NextPluto]_vars

\* C28: pluto_transmit_iq touches the device only when the context is
\* initialized: before pluto_init, after a failed pluto_init and after
\* pluto_cleanup it returns -1 without creating a buffer on a destroyed or
\* absent IIO context, as pluto_configure_tx and pluto_enable_tx do.
C28_TransmitNeedsInitializedContext ==
    /\ pl_ctx.initialized # 0 => (pl_ctx.ctx # 0 /\ pl_ctx.tx_dev # 0 /\ dev_alive)
    /\ ~pl_call.dead_use
    /\ (pl_call.fn \in {"configure_tx", "enable_tx", "transmit_iq"}
            /\ pl_ctx.initialized = 0) =>
          /\ pl_call.ret = -1
          /\ pl_call.created = 0

\* C29: pluto_transmit_iq releases what it creates: whenever it returns,
\* ctx->tx_buf is NULL and every IIO buffer it created has been destroyed
\* exactly once, and it returns -1 or num_samples; on success the chunks,
\* each of at most 65536 samples, were pushed in order and cover every sample
\* exactly once.
C29_TransmitReleasesBuffers ==
    pl_call.fn = "transmit_iq" =>
        /\ pl_ctx.tx_buf = 0
        /\ pl_call.destroyed = pl_call.created
        /\ pl_call.ret \in {-1, pl_call.num_samples}
        /\ pl_call.ret # -1 =>
              /\ pl_call.num_samples > 0
              /\ Len(pl_call.pushed) = pl_call.created
              /\ pl_call.pushed[1][1] = 0
              /\ \A k \in 1..Len(pl_call.pushed) :
                    /\ pl_call.pushed[k][2] >= 1
                    /\ pl_call.pushed[k][2] <= CHUNK_SIZE
                    /\ pl_call.pushed[k][1] + pl_call.pushed[k][2]
                          = (IF k < Len(pl_call.pushed) THEN pl_call.pushed[k + 1][1]
                             ELSE pl_call.num_samples)

====
